---- MODULE Spec2Model ----
(***************************************************************************)
(* Model of the clinical-document automation repository:                   *)
(*   - the workflow orchestrator ClinicalDocAutomation                      *)
(*     (clinical-doc-automation/automation_workflow.py), and                *)
(*   - the validation-rule generator DVPGenerator                           *)
(*     (clinical-doc-automation/modules/dvp_generator.py).                  *)
(* Spec    is the orchestrator driven by a caller of one instance.          *)
(* SpecDVP is one DVPGenerator instance driven by a caller.                 *)
(* SpecMain is the constructor, BatchProcessor and main() of the workflow.   *)
(***************************************************************************)
EXTENDS Integers, Sequences, FiniteSets, TLC

VARIABLES
    report,          \* self.report : AutomationReport
    protocol_info,   \* self.protocol_info : Optional[ProtocolInfo]
    report_files,    \* automation_report.json / automation_report.txt on disk
    pc,              \* position of the single thread of control
    cur,             \* task_type of the step being executed ("none" outside a step)
    op,              \* public method the caller invoked last ("none" initially)
    generate_types,  \* argument of the run_all in progress
    run_base,        \* ghost: number of task records when the last run_all began
    ra_outcome,      \* how the last run_all ended: "none", "returned", "raised"
    ret,             \* return value of the last step method: "None", "True", "False"
    ra_if,           \* index in GenOrder of the next `if` of run_all (0 outside run_all)
    calls,           \* number of public calls made on this instance
    crf_fields,       \* DVPGenerator.crf_fields
    validation_rules, \* DVPGenerator.validation_rules
    rule_counter,     \* DVPGenerator.rule_counter
    returned,         \* rules returned by the last generator call
    dvp_raised,       \* exception raised by the last generator call, or "None"
    dvp_op,           \* generator method the caller invoked last
    issued,           \* ghost: id, category and constructing method of every rule so far
    all_batches,      \* ghost: one entry per generate_all_rules call
    dvp_ops,          \* number of calls made on this generator
    summary,          \* dict returned by the last get_rules_summary call
    exported,         \* list returned by the last export_rules_to_dict call
    constructed,      \* arguments of the ValidationRule(...) the last call constructed
    api_key,          \* self.api_key of the orchestrator
    env_key,          \* environment variable GEMINI_API_KEY
    ctor,             \* the last ClinicalDocAutomation(...) call and what it raised
    main_pc,          \* position of main() / of the library caller ("none": not started)
    argv,             \* parsed command line of main()
    base_dir,         \* whether the batch output base directory exists on disk
    batch_i,          \* loop index i of process_protocols
    results,          \* BatchProcessor.results
    attempts,         \* ghost: the inputs process_protocols has handled, in order
    batch_summary,    \* batch_summary.txt
    exit_code,        \* argument of sys.exit (-1 while the process runs)
    exit_via,         \* the statement of main() that ended the process
    backup_enabled,   \* self.backup_enabled of the orchestrator
    backups           \* the copies _create_backup has attempted into self.backup_dir

orch_vars == <<report, protocol_info, report_files, pc, cur, op,
               generate_types, run_base, ra_outcome, ret, ra_if, calls>>

dvp_vars == <<crf_fields, validation_rules, rule_counter, returned, dvp_raised,
              dvp_op, issued, all_batches, dvp_ops, summary, exported,
              constructed>>

proc_vars == <<api_key, env_key, ctor, main_pc, argv, base_dir, batch_i, results,
               attempts, batch_summary, exit_code, exit_via>>

backup_vars == <<backup_enabled, backups>>

vars == <<orch_vars, dvp_vars, proc_vars, backup_vars>>

----------------------------------------------------------------------------
(* Bounds *)

MaxCalls == 2
MaxTasks == 6
MaxDvpOps == 3
MaxBatch == 3

----------------------------------------------------------------------------
(* Data structures *)

NoneStr == "None"

\* a Python str/None used as a condition:  `if output_path:` / `if error_message:`
Truthy(s) == s # NoneStr /\ s # ""

GenTypes == {"crf", "dvp", "user_guide", "dmp"}

\* order of the four `if '<type>' in generate_types` statements of run_all
GenOrder == <<"crf", "dvp", "user_guide", "dmp">>

StepTypes == {"protocol_parsing"} \cup GenTypes

TerminalStatus == {"completed", "failed", "skipped"}

TaskId(task_type) ==
    CASE task_type = "protocol_parsing" -> "parse_protocol"
      [] task_type = "crf"              -> "generate_crf"
      [] task_type = "dvp"              -> "generate_dvp"
      [] task_type = "user_guide"       -> "generate_user_guide"
      [] task_type = "dmp"              -> "generate_dmp"

GenerationTask(task_id, task_type) ==
    [task_id       |-> task_id,
     task_type     |-> task_type,
     status        |-> "pending",
     output_path   |-> NoneStr,
     error_message |-> NoneStr,
     start_time    |-> NoneStr,
     end_time      |-> NoneStr]

AutomationReport ==
    [end_time        |-> NoneStr,
     total_tasks     |-> 0,
     completed_tasks |-> 0,
     failed_tasks    |-> 0,
     skipped_tasks   |-> 0,
     tasks           |-> <<>>,
     generated_files |-> <<>>,
     errors          |-> <<>>,
     protocol_info   |-> [set |-> FALSE, protocol_number |-> NoneStr]]

\* values ProtocolInfo.protocol_number can take after a parse (Optional[str])
ProtocolNumbers == {NoneStr, "TEST-001"}

\* generate_types as passed by the caller: a list of type names, None, or a
\* value that does not support `in` (the annotation is not enforced)
GenerateTypesInputs ==
    [kind : {"list"}, types : SUBSET GenTypes]
      \cup {[kind |-> "none", types |-> {}], [kind |-> "not_iterable", types |-> {}]}

\* lines 891-892: None means all four types
EffectiveTypesMut(gt) == GenTypes
EffectiveTypes(gt) == IF gt.kind = "none" THEN GenTypes ELSE gt.types

----------------------------------------------------------------------------
(* _create_backup *)

\* lines 230-241: nothing when backups are disabled; otherwise one copy into
\* the backup directory, whose failure is only logged.  No statement of the
\* module calls this method, so no action below applies it
CreateBackup(enabled, log, file_path, copy_ok) ==
    IF ~enabled THEN log
    ELSE Append(log, [file |-> file_path, copied |-> copy_ok])

----------------------------------------------------------------------------
(* _update_task_status *)

\* the local variable `task` of a step method is the record it appended last
CurrentTaskMut(rep) == 1
CurrentTask(rep) == Len(rep.tasks)

UpdateTaskStatusAnyFile(rep, status, output_path, error_message) ==
    LET i    == CurrentTask(rep)
        task == rep.tasks[i]
        task2 == [task EXCEPT
                    !.status        = status,
                    !.start_time    = IF status = "running" THEN "ts" ELSE @,
                    !.end_time      = IF status \in TerminalStatus THEN "ts" ELSE @,
                    !.output_path   = IF Truthy(output_path) THEN output_path ELSE @,
                    !.error_message = IF Truthy(error_message) THEN error_message ELSE @]
    IN  [rep EXCEPT
            !.tasks[i]        = task2,
            !.generated_files = IF status \in TerminalStatus
                                THEN Append(@, output_path) ELSE @,
            !.errors          = IF Truthy(error_message)
                                THEN Append(@, <<task.task_type, error_message>>) ELSE @,
            !.completed_tasks = IF status = "completed" THEN @ + 1 ELSE @,
            !.failed_tasks    = IF status = "failed"    THEN @ + 1 ELSE @,
            !.skipped_tasks   = IF status = "skipped"   THEN @ + 1 ELSE @]

UpdateTaskStatusMut(rep, status, output_path, error_message) ==
    LET i    == CurrentTask(rep)
        task == rep.tasks[i]
        task2 == [task EXCEPT
                    !.status        = status,
                    !.end_time      = IF status \in TerminalStatus THEN "ts" ELSE @,
                    !.output_path   = IF Truthy(output_path) THEN output_path ELSE @,
                    !.error_message = IF Truthy(error_message) THEN error_message ELSE @]
    IN  [rep EXCEPT
            !.tasks[i]        = task2,
            !.generated_files = IF Truthy(output_path) /\ status = "completed"
                                THEN Append(@, output_path) ELSE @,
            !.errors          = IF Truthy(error_message)
                                THEN Append(@, <<task.task_type, error_message>>) ELSE @,
            !.completed_tasks = IF status = "completed" THEN @ + 1 ELSE @,
            !.failed_tasks    = IF status = "failed"    THEN @ + 1 ELSE @,
            !.skipped_tasks   = IF status = "skipped"   THEN @ + 1 ELSE @]

UpdateTaskStatus(rep, status, output_path, error_message) ==
    LET i    == CurrentTask(rep)
        task == rep.tasks[i]
        task2 == [task EXCEPT
                    !.status        = status,
                    !.start_time    = IF status = "running" THEN "ts" ELSE @,
                    !.end_time      = IF status \in TerminalStatus THEN "ts" ELSE @,
                    !.output_path   = IF Truthy(output_path) THEN output_path ELSE @,
                    !.error_message = IF Truthy(error_message) THEN error_message ELSE @]
    IN  [rep EXCEPT
            !.tasks[i]        = task2,
            !.generated_files = IF Truthy(output_path) /\ status = "completed"
                                THEN Append(@, output_path) ELSE @,
            !.errors          = IF Truthy(error_message)
                                THEN Append(@, <<task.task_type, error_message>>) ELSE @,
            !.completed_tasks = IF status = "completed" THEN @ + 1 ELSE @,
            !.failed_tasks    = IF status = "failed"    THEN @ + 1 ELSE @,
            !.skipped_tasks   = IF status = "skipped"   THEN @ + 1 ELSE @]

\* first statements of every step method: create the task, append it, count it
CreateTaskMut(rep, task_type) ==
    [rep EXCEPT !.tasks = Append(@, GenerationTask(TaskId(task_type), task_type))]
CreateTask(rep, task_type) ==
    [rep EXCEPT !.tasks       = Append(@, GenerationTask(TaskId(task_type), task_type)),
                !.total_tasks = @ + 1]

\* output_file of each step; the three documents are named after the protocol
\* number, which is a str whenever the name can be built (None.replace raises)
OutputFile(task_type) ==
    CASE task_type = "protocol_parsing" -> "protocol_info.json"
      [] task_type = "crf"              -> "CRF_TEST-001.docx"
      [] task_type = "dvp"              -> "DVP_TEST-001.docx"
      [] task_type = "user_guide"       -> "UserGuide_TEST-001.docx"
      [] OTHER                          -> NoneStr

SkipMessage(task_type) ==
    CASE task_type = "crf"        -> "cannot generate CRF: protocol not parsed"
      [] task_type = "dvp"        -> "cannot generate DVP: protocol not parsed"
      [] task_type = "user_guide" -> "cannot generate User Guide: protocol not parsed"
      [] task_type = "dmp"        -> "DMP generator not implemented"
      [] OTHER                    -> NoneStr

FailMessage(task_type) ==
    CASE task_type = "protocol_parsing" -> "Protocol parsing failed"
      [] task_type = "crf"              -> "CRF generation failed"
      [] task_type = "dvp"              -> "DVP generation failed"
      [] task_type = "user_guide"       -> "User Guide generation failed"
      [] OTHER                          -> NoneStr

----------------------------------------------------------------------------
(* Orchestrator: initial state after __init__ *)

NoReportFile == [written |-> FALSE, content |-> AutomationReport]

OrchInit ==
    /\ report = AutomationReport
    /\ protocol_info = [set |-> FALSE, protocol_number |-> NoneStr]
    /\ report_files = [f \in {"json", "text"} |-> NoReportFile]
    /\ pc = "idle"
    /\ cur = "none"
    /\ op = "none"
    /\ generate_types = [kind |-> "none", types |-> {}]
    /\ run_base = 0
    /\ ra_outcome = "none"
    /\ ret = NoneStr
    /\ ra_if = 0
    /\ calls = 0

\* position of a type in GenOrder
OrderIndex(task_type) == CHOOSE i \in 1..Len(GenOrder) : GenOrder[i] = task_type

\* control after a step method returns r to its caller
\* inside run_all: lines 900-916; called directly: back to the caller
ReturnFromStepAbort(r) ==
    /\ ret' = r
    /\ cur' = "none"
    /\ IF op = "run_all"
       THEN IF r = "False"
            THEN pc' = "ra_finally" /\ ra_if' = 0
            ELSE pc' = "ra_if" /\ ra_if' = (IF cur = "protocol_parsing" THEN 1 ELSE ra_if + 1)
       ELSE pc' = "idle" /\ ra_if' = 0

ReturnFromStepNoHalt(r) ==
    /\ ret' = r
    /\ cur' = "none"
    /\ IF op = "run_all"
       THEN pc' = "ra_if" /\ ra_if' = (IF cur = "protocol_parsing" THEN 1 ELSE ra_if + 1)
       ELSE pc' = "idle" /\ ra_if' = 0

ReturnFromStep(r) ==
    /\ ret' = r
    /\ cur' = "none"
    /\ IF op = "run_all"
       THEN IF cur = "protocol_parsing"
            THEN IF r = "False"
                 THEN pc' = "ra_finally" /\ ra_if' = 0
                 ELSE pc' = "ra_if" /\ ra_if' = 1
            ELSE pc' = "ra_if" /\ ra_if' = ra_if + 1
       ELSE pc' = "idle" /\ ra_if' = 0

----------------------------------------------------------------------------
(* Orchestrator: public calls *)

\* a caller invokes parse_protocol() directly: lines 282-287
CallParseProtocol ==
    /\ pc = "idle" /\ calls < MaxCalls
    /\ UNCHANGED <<dvp_vars, proc_vars, backup_vars>>
    /\ Len(report.tasks) + 1 <= MaxTasks
    /\ calls' = calls + 1
    /\ op' = "parse_protocol"
    /\ report' = CreateTask(report, "protocol_parsing")
    /\ pc' = "created" /\ cur' = "protocol_parsing"
    /\ ret' = NoneStr
    /\ UNCHANGED <<protocol_info, report_files, generate_types, run_base, ra_outcome, ra_if>>

\* a caller invokes generate_crf / generate_dvp / generate_user_guide /
\* generate_dmp directly: lines 334-339, 407-412, 573-578, 741-746
CallGenerate(t) ==
    /\ pc = "idle" /\ calls < MaxCalls
    /\ UNCHANGED <<dvp_vars, proc_vars, backup_vars>>
    /\ Len(report.tasks) + 1 <= MaxTasks
    /\ calls' = calls + 1
    /\ op' = TaskId(t)
    /\ report' = CreateTask(report, t)
    /\ pc' = "created" /\ cur' = t
    /\ ret' = NoneStr
    /\ UNCHANGED <<protocol_info, report_files, generate_types, run_base, ra_outcome, ra_if>>

\* a caller invokes run_all(generate_types): lines 891-900, entering parse_protocol
CallRunAll(gt) ==
    /\ pc = "idle" /\ calls < MaxCalls
    /\ UNCHANGED <<dvp_vars, proc_vars, backup_vars>>
    /\ Len(report.tasks) + 1 + Cardinality(EffectiveTypes(gt)) <= MaxTasks
    /\ calls' = calls + 1
    /\ op' = "run_all"
    /\ generate_types' = gt
    /\ run_base' = Len(report.tasks)
    /\ ra_outcome' = "none"
    /\ report' = CreateTask(report, "protocol_parsing")
    /\ pc' = "created" /\ cur' = "protocol_parsing"
    /\ ret' = NoneStr
    /\ ra_if' = 0
    /\ UNCHANGED <<protocol_info, report_files>>

----------------------------------------------------------------------------
(* Orchestrator: inside the step methods *)

\* lines 345-349, 418-422, 584-588: `if not self.protocol_info` -> skipped, return False
PreconditionSkipMut ==
    /\ pc = "created" /\ cur \in {"crf", "dvp", "user_guide"}
    /\ UNCHANGED <<dvp_vars, proc_vars, backup_vars>>
    /\ ~protocol_info.set
    /\ report' = UpdateTaskStatus(report, "running", NoneStr, NoneStr)
    /\ pc' = "running"
    /\ UNCHANGED <<protocol_info, report_files, cur, op, generate_types, run_base,
                   ra_outcome, ret, ra_if, calls>>

PreconditionSkip ==
    /\ pc = "created" /\ cur \in {"crf", "dvp", "user_guide"}
    /\ UNCHANGED <<dvp_vars, proc_vars, backup_vars>>
    /\ ~protocol_info.set
    /\ report' = UpdateTaskStatus(report, "skipped", NoneStr, SkipMessage(cur))
    /\ ReturnFromStep("False")
    /\ UNCHANGED <<protocol_info, report_files, op, generate_types, run_base, ra_outcome, calls>>

\* lines 752-757: the DMP stub records skipped and returns True
GenerateDmpNoMessage ==
    /\ pc = "created" /\ cur = "dmp"
    /\ UNCHANGED <<dvp_vars, proc_vars, backup_vars>>
    /\ report' = UpdateTaskStatus(report, "skipped", NoneStr, NoneStr)
    /\ ReturnFromStep("True")
    /\ UNCHANGED <<protocol_info, report_files, op, generate_types, run_base, ra_outcome, calls>>

GenerateDmpMut ==
    /\ pc = "created" /\ cur = "dmp"
    /\ UNCHANGED <<dvp_vars, proc_vars, backup_vars>>
    /\ report' = UpdateTaskStatus(report, "failed", NoneStr, SkipMessage("dmp"))
    /\ ReturnFromStep("False")
    /\ UNCHANGED <<protocol_info, report_files, op, generate_types, run_base, ra_outcome, calls>>

GenerateDmp ==
    /\ pc = "created" /\ cur = "dmp"
    /\ UNCHANGED <<dvp_vars, proc_vars, backup_vars>>
    /\ report' = UpdateTaskStatus(report, "skipped", NoneStr, SkipMessage("dmp"))
    /\ ReturnFromStep("True")
    /\ UNCHANGED <<protocol_info, report_files, op, generate_types, run_base, ra_outcome, calls>>

\* lines 294, 352, 425, 591: first statement of the try block
MarkRunning ==
    /\ pc = "created"
    /\ UNCHANGED <<dvp_vars, proc_vars, backup_vars>>
    /\ \/ cur = "protocol_parsing"
       \/ cur \in {"crf", "dvp", "user_guide"} /\ protocol_info.set
    /\ report' = UpdateTaskStatus(report, "running", NoneStr, NoneStr)
    /\ pc' = "running"
    /\ UNCHANGED <<protocol_info, report_files, cur, op, generate_types, run_base,
                   ra_outcome, ret, ra_if, calls>>

\* ProtocolParser.__init__ / _configure_gemini: the model exists only when
\* `api_key or os.getenv("GEMINI_API_KEY")` is truthy; without a model
\* extract_info_with_gemini raises ValueError
ParserConfiguredMut(key, env) == Truthy(key)
ParserConfigured(key, env) == Truthy(key) \/ Truthy(env)

\* lines 297-318: the parser returns a ProtocolInfo and its JSON is saved
ParseCompleteMut(pn) ==
    /\ pc = "running" /\ cur = "protocol_parsing"
    /\ UNCHANGED <<dvp_vars, proc_vars, backup_vars>>
    /\ ParserConfigured(api_key, env_key)
    /\ report' = UpdateTaskStatus(
                    [report EXCEPT !.protocol_info = [set |-> TRUE, protocol_number |-> pn]],
                    "completed", OutputFile("protocol_parsing"), NoneStr)
    /\ ReturnFromStep("True")
    /\ UNCHANGED <<protocol_info, report_files, op, generate_types, run_base, ra_outcome, calls>>
ParseComplete(pn) ==
    /\ pc = "running" /\ cur = "protocol_parsing"
    /\ UNCHANGED <<dvp_vars, proc_vars, backup_vars>>
    /\ ParserConfigured(api_key, env_key)
    /\ protocol_info' = [set |-> TRUE, protocol_number |-> pn]
    /\ report' = UpdateTaskStatus(
                    [report EXCEPT !.protocol_info = [set |-> TRUE, protocol_number |-> pn]],
                    "completed", OutputFile("protocol_parsing"), NoneStr)
    /\ ReturnFromStep("True")
    /\ UNCHANGED <<report_files, op, generate_types, run_base, ra_outcome, calls>>

\* lines 320-325: an exception inside the try block.  Raised by the parser
\* (line 297 or 301) self.protocol_info keeps its value; raised by save_to_json
\* (line 305) self.protocol_info is already the new ProtocolInfo
ParseFail(stage, pn) ==
    /\ pc = "running" /\ cur = "protocol_parsing"
    /\ UNCHANGED <<dvp_vars, proc_vars, backup_vars>>
    /\ protocol_info' = IF stage = "save"
                        THEN [set |-> TRUE, protocol_number |-> pn]
                        ELSE protocol_info
    /\ report' = UpdateTaskStatus(report, "failed", NoneStr, FailMessage("protocol_parsing"))
    /\ ReturnFromStep("False")
    /\ UNCHANGED <<report_files, op, generate_types, run_base, ra_outcome, calls>>

\* lines 354-391, 427-464, 593-627: the document is generated and saved.
\* The output file name needs protocol_number.replace, so protocol_number is a str
GenerateComplete ==
    /\ pc = "running" /\ cur \in {"crf", "dvp", "user_guide"}
    /\ UNCHANGED <<dvp_vars, proc_vars, backup_vars>>
    /\ protocol_info.protocol_number # NoneStr
    /\ report' = UpdateTaskStatus(report, "completed", OutputFile(cur), NoneStr)
    /\ ReturnFromStep("True")
    /\ UNCHANGED <<protocol_info, report_files, op, generate_types, run_base, ra_outcome, calls>>

\* lines 393-398, 466-471, 629-634: any exception of the try block, among them
\* the AttributeError of None.replace when protocol_number is None
GenerateFail ==
    /\ pc = "running" /\ cur \in {"crf", "dvp", "user_guide"}
    /\ UNCHANGED <<dvp_vars, proc_vars, backup_vars>>
    /\ report' = UpdateTaskStatus(report, "failed", NoneStr, FailMessage(cur))
    /\ ReturnFromStep("False")
    /\ UNCHANGED <<protocol_info, report_files, op, generate_types, run_base, ra_outcome, calls>>

----------------------------------------------------------------------------
(* Orchestrator: run_all and generate_final_report *)

\* lines 906-916: one `if '<type>' in generate_types:` statement.  The test
\* raises TypeError when generate_types does not support `in`
RunAllIf ==
    /\ pc = "ra_if" /\ ra_if \in 1..Len(GenOrder)
    /\ UNCHANGED <<dvp_vars, proc_vars, backup_vars>>
    /\ IF generate_types.kind = "not_iterable"
       THEN /\ pc' = "ra_except"
            /\ UNCHANGED <<report, cur, ra_if>>
       ELSE IF GenOrder[ra_if] \in EffectiveTypes(generate_types)
       THEN /\ report' = CreateTask(report, GenOrder[ra_if])
            /\ pc' = "created" /\ cur' = GenOrder[ra_if]
            /\ UNCHANGED ra_if
       ELSE /\ pc' = "ra_if" /\ ra_if' = ra_if + 1
            /\ UNCHANGED <<report, cur>>
    /\ UNCHANGED <<protocol_info, report_files, op, generate_types, run_base,
                   ra_outcome, ret, calls>>

\* the try block of run_all is exhausted after the fourth `if`
RunAllEndTry ==
    /\ pc = "ra_if" /\ ra_if > Len(GenOrder)
    /\ UNCHANGED <<dvp_vars, proc_vars, backup_vars>>
    /\ pc' = "ra_finally" /\ ra_if' = 0
    /\ UNCHANGED <<report, protocol_info, report_files, cur, op, generate_types,
                   run_base, ra_outcome, ret, calls>>

\* lines 918-921: the top-level handler records the unexpected exception
RunAllExcept ==
    /\ pc = "ra_except"
    /\ UNCHANGED <<dvp_vars, proc_vars, backup_vars>>
    /\ report' = [report EXCEPT !.errors = Append(@, <<"run_all", "unexpected error">>)]
    /\ pc' = "ra_finally" /\ ra_if' = 0
    /\ UNCHANGED <<protocol_info, report_files, cur, op, generate_types,
                   run_base, ra_outcome, ret, calls>>

\* lines 759-785: generate_final_report sets end_time and writes both files
GenerateFinalReportMut(rep) == rep
GenerateFinalReport(rep) == [rep EXCEPT !.end_time = "ts"]

\* lines 923-930 (and 903): the finally block, then run_all returns the report
RunAllFinally ==
    /\ pc = "ra_finally"
    /\ UNCHANGED <<dvp_vars, proc_vars, backup_vars>>
    /\ report' = GenerateFinalReport(report)
    /\ report_files' = [f \in {"json", "text"} |->
                          [written |-> TRUE, content |-> GenerateFinalReport(report)]]
    /\ ra_outcome' = "returned"
    /\ pc' = "idle"
    /\ UNCHANGED <<protocol_info, cur, op, generate_types, run_base, ret, ra_if, calls>>

Next ==
    \/ CallParseProtocol
    \/ \E t \in GenTypes : CallGenerate(t)
    \/ \E gt \in GenerateTypesInputs : CallRunAll(gt)
    \/ PreconditionSkip
    \/ GenerateDmp
    \/ MarkRunning
    \/ \E pn \in ProtocolNumbers : ParseComplete(pn)
    \/ \E stage \in {"parse", "save"}, pn \in ProtocolNumbers : ParseFail(stage, pn)
    \/ GenerateComplete
    \/ GenerateFail
    \/ RunAllIf
    \/ RunAllEndTry
    \/ RunAllExcept
    \/ RunAllFinally

----------------------------------------------------------------------------
(* DVPGenerator: enumerations and records *)

CRITICAL == "Critical"
MAJOR    == "Major"
MINOR    == "Minor"

RANGE_CHECK        == "Range Check"
REQUIRED_FIELD     == "Required Field"
LOGICAL_CHECK      == "Logical Check"
CROSS_FORM         == "Cross-Form Validation"
DATE_CONSISTENCY   == "Date Consistency"
PROTOCOL_DEVIATION == "Protocol Deviation"
CUSTOM             == "Custom"

ValidationType == {RANGE_CHECK, REQUIRED_FIELD, LOGICAL_CHECK, CROSS_FORM,
                   DATE_CONSISTENCY, PROTOCOL_DEVIATION, CUSTOM}

\* Optional values: None is the empty tuple, a present value v is <<v>>
None == <<>>
Some(v) == <<v>>

\* Text is a sequence of segments: literal text of the source, or characters
\* interpolated by an f-string (a field name, a formatted number)
Lit(str) == [lit |-> str, chars |-> <<>>]
Chars(cs) == [lit |-> "", chars |-> cs]

\* `not text` for a str built of segments
IsEmptyText(text) == \A i \in 1..Len(text) : text[i].lit = "" /\ text[i].chars = <<>>

\* the text holds the characters cs as one interpolated value
TextCarries(text, cs) == \E i \in 1..Len(text) : text[i].chars = cs

DigitChar == <<"0", "1", "2", "3", "4", "5", "6", "7", "8", "9">>

\* str(n) / f"{n}" of a non-negative int
RECURSIVE ToDigits(_)
ToDigits(n) == IF n < 10 THEN <<DigitChar[n + 1]>>
               ELSE Append(ToDigits(n \div 10), DigitChar[(n % 10) + 1])

\* f"{n:04d}": zero padding on the left up to four characters
RECURSIVE PadLeft(_, _)
PadLeft(cs, width) == IF Len(cs) >= width THEN cs ELSE PadLeft(<<"0">> \o cs, width)

IdWidth == 4

UpperAlpha == <<"A", "B", "C", "D", "E", "F", "G", "H", "I", "J", "K", "L", "M",
                "N", "O", "P", "Q", "R", "S", "T", "U", "V", "W", "X", "Y", "Z">>
LowerAlpha == <<"a", "b", "c", "d", "e", "f", "g", "h", "i", "j", "k", "l", "m",
                "n", "o", "p", "q", "r", "s", "t", "u", "v", "w", "x", "y", "z">>

\* str.lower()
LowerChar(c) == IF \E i \in 1..Len(UpperAlpha) : UpperAlpha[i] = c
                THEN LowerAlpha[CHOOSE i \in 1..Len(UpperAlpha) : UpperAlpha[i] = c]
                ELSE c
Lower(cs) == [i \in 1..Len(cs) |-> LowerChar(cs[i])]

OccursAt(sub, cs, i) ==
    /\ i + Len(sub) - 1 <= Len(cs)
    /\ \A k \in 1..Len(sub) : cs[i + k - 1] = sub[k]

\* re.search of a pattern  lit1.*lit2.*...  : the literals occur in order,
\* without overlap, anywhere in cs.  With one literal this is `lit in cs`
RECURSIVE SearchFrom(_, _, _)
SearchFrom(parts, cs, start) ==
    IF parts = <<>> THEN TRUE
    ELSE \E i \in start..Len(cs) :
            /\ OccursAt(Head(parts), cs, i)
            /\ SearchFrom(Tail(parts), cs, i + Len(Head(parts)))
ReSearch(parts, cs) == SearchFrom(parts, cs, 1)
Contains(sub, cs) == SearchFrom(<<sub>>, cs, 1)

CRFField(field_name, field_label, form_name, data_type, required, min_value, max_value, valid_values, units) ==
    [field_name   |-> field_name,
     field_label  |-> field_label,
     form_name    |-> form_name,
     data_type    |-> data_type,
     required     |-> required,
     min_value    |-> min_value,
     max_value    |-> max_value,
     valid_values |-> valid_values,
     units        |-> units]

\* the field definitions callers hand to add_crf_fields
AgeField ==
    CRFField(<<"a", "g", "e">>, "Age", "Demographics", "numeric", TRUE,
             Some(18), Some(65), None, NoneStr)
FieldPool ==
    { AgeField,
      CRFField(<<"w", "e", "i", "g", "h", "t">>, "Weight", "Vitals", "numeric", FALSE,
               Some(40), Some(200), None, "kg"),
      CRFField(<<"t", "e", "m", "p">>, "Temperature", "Vitals", "numeric", FALSE,
               Some(0), None, None, NoneStr),
      CRFField(<<"s", "u", "b", "j", "e", "c", "t", "_", "i", "d">>, "Subject ID", "Demographics", "text", TRUE,
               None, None, None, NoneStr),
      CRFField(<<"S", "u", "b", "j", "e", "c", "t", "_", "I", "D">>, "Subject ID", "Visit", "text", FALSE,
               None, None, None, NoneStr),
      CRFField(<<"s", "c", "r", "_", "s", "u", "b", "j", "e", "c", "t", "_", "i", "d">>, "Screening Subject ID", "Demographics", "text", FALSE,
               None, None, None, NoneStr),
      CRFField(<<"v", "i", "s", "i", "t", "_", "d", "a", "t", "e">>, "Visit Date", "Visit", "date", FALSE,
               None, None, None, NoneStr),
      CRFField(<<"a", "e", "_", "s", "t", "a", "r", "t", "_", "d", "a", "t", "e">>, "AE Start Date", "Adverse Events", "date", TRUE,
               None, None, None, NoneStr),
      CRFField(<<"a", "e", "_", "o", "c", "c", "u", "r", "r", "e", "d">>, "AE Occurred", "Adverse Events", "dropdown", TRUE,
               None, None, Some(<<"Yes", "No">>), NoneStr) }

ValidationRule(rule_id, description, severity, query_text, validation_type, form_name, field_name, details) ==
    [rule_id         |-> rule_id,
     description     |-> description,
     severity        |-> severity,
     query_text      |-> query_text,
     validation_type |-> validation_type,
     form_name       |-> form_name,
     field_name      |-> field_name,
     details         |-> details]

\* what a call passes to the dataclass constructor for the three checked fields
Construction(rule_id, description, query_text) ==
    [made |-> TRUE, rule_id |-> rule_id, description |-> description,
     query_text |-> query_text]

NoConstruction ==
    [made |-> FALSE, rule_id |-> [prefix |-> "", sep |-> "", number |-> <<>>],
     description |-> <<>>, query_text |-> <<>>]

\* __post_init__ raises ValueError unless all three hold
PostInitOkMut(rule_id, description, query_text) ==
    /\ rule_id.prefix # "" \/ rule_id.sep # "" \/ rule_id.number # <<>>
    /\ ~IsEmptyText(description)
PostInitOk(rule_id, description, query_text) ==
    /\ rule_id.prefix # "" \/ rule_id.sep # "" \/ rule_id.number # <<>>
    /\ ~IsEmptyText(description)
    /\ ~IsEmptyText(query_text)

\* prefix_map.get(validation_type, "VAL")
PrefixMut(validation_type) == "VAL"
Prefix(validation_type) ==
    CASE validation_type = RANGE_CHECK        -> "RNG"
      [] validation_type = REQUIRED_FIELD     -> "REQ"
      [] validation_type = LOGICAL_CHECK      -> "LOG"
      [] validation_type = CROSS_FORM         -> "CRS"
      [] validation_type = DATE_CONSISTENCY   -> "DAT"
      [] validation_type = PROTOCOL_DEVIATION -> "PRO"
      [] validation_type = CUSTOM             -> "CUS"
      [] OTHER                                -> "VAL"

\* _generate_rule_id, called with the already incremented counter:
\* f"{prefix}-{self.rule_counter:04d}"
RuleId(counter, validation_type) ==
    [prefix |-> Prefix(validation_type),
     sep    |-> "-",
     number |-> PadLeft(ToDigits(counter), IdWidth)]

----------------------------------------------------------------------------
(* DVPGenerator: the six rule generators.  Each is the function               *)
(* (crf_fields, rule_counter) -> (returned rules, rule_counter afterwards)    *)

GenResult(rules, counter) == [rules |-> rules, rule_counter |-> counter]

\* lines 192-210
RECURSIVE RequiredLoop(_, _, _, _)
RequiredLoop(fields, i, counter, rules) ==
    IF i > Len(fields) THEN GenResult(rules, counter)
    ELSE LET field == fields[i] IN
         IF field.required
         THEN RequiredLoop(fields, i + 1, counter + 1,
                Append(rules,
                  ValidationRule(
                    RuleId(counter + 1, REQUIRED_FIELD),
                    <<Lit("Check that "), Lit(field.field_label), Lit(" ("),
                      Chars(field.field_name), Lit(") in "), Lit(field.form_name),
                      Lit(" is not missing")>>,
                    CRITICAL,
                    <<Lit("Please provide the missing value for "),
                      Lit(field.field_label), Lit(".")>>,
                    REQUIRED_FIELD,
                    field.form_name,
                    Some(field.field_name),
                    <<>>)))
         ELSE RequiredLoop(fields, i + 1, counter, rules)

generate_required_field_checksMut(fields, counter) == RequiredLoop(fields, 2, counter, <<>>)
generate_required_field_checks(fields, counter) == RequiredLoop(fields, 1, counter, <<>>)

\* line 148: `field.min_value is not None`; the mutant is the truth test `if field.min_value`
IsSetMut(v) == v # None /\ v[1] # 0
IsSet(v) == v # None

\* lines 153-158
RangeDescMut(field) ==
    IF field.min_value # None
    THEN <<Lit("greater than or equal to "), Chars(ToDigits(field.min_value[1]))>>
    ELSE <<Lit("less than or equal to "), Chars(ToDigits(field.max_value[1]))>>

RangeDesc(field) ==
    IF field.min_value # None /\ field.max_value # None
    THEN <<Lit("between "), Chars(ToDigits(field.min_value[1])),
           Lit(" and "), Chars(ToDigits(field.max_value[1]))>>
    ELSE IF field.min_value # None
    THEN <<Lit("greater than or equal to "), Chars(ToDigits(field.min_value[1]))>>
    ELSE <<Lit("less than or equal to "), Chars(ToDigits(field.max_value[1]))>>

\* lines 161-162, 166-167: `if field.units:` appends " <units>"
UnitsSuffix(field) == IF Truthy(field.units) THEN <<Lit(" "), Lit(field.units)>> ELSE <<>>

\* lines 147-186
RECURSIVE RangeLoop(_, _, _, _)
RangeLoop(fields, i, counter, rules) ==
    IF i > Len(fields) THEN GenResult(rules, counter)
    ELSE LET field == fields[i] IN
         IF field.data_type = "numeric" /\ (IsSet(field.min_value) \/ IsSet(field.max_value))
         THEN RangeLoop(fields, i + 1, counter + 1,
                Append(rules,
                  ValidationRule(
                    RuleId(counter + 1, RANGE_CHECK),
                    <<Lit("Check that "), Lit(field.field_label), Lit(" ("),
                      Chars(field.field_name), Lit(") is ")>>
                      \o RangeDesc(field) \o UnitsSuffix(field),
                    MAJOR,
                    <<Lit("Please verify "), Lit(field.field_label),
                      Lit(". The value is outside the expected range (")>>
                      \o RangeDesc(field) \o UnitsSuffix(field) \o <<Lit(").")>>,
                    RANGE_CHECK,
                    field.form_name,
                    Some(field.field_name),
                    [min_value |-> field.min_value,
                     max_value |-> field.max_value,
                     units     |-> field.units])))
         ELSE RangeLoop(fields, i + 1, counter, rules)

generate_range_checks(fields, counter) == RangeLoop(fields, 1, counter, <<>>)

\* lines 220-239: the table of date checks
date_checks ==
    << [field_pattern |-> <<<<"i", "n", "f", "o", "r", "m">>, <<"c", "o", "n", "s", "e", "n", "t">>, <<"d", "a", "t", "e">>>>,
        reference     |-> "study_start_date",
        check         |-> "on_or_before",
        description   |-> "Informed consent date should be on or before the study start date"],
       [field_pattern |-> <<<<"v", "i", "s", "i", "t">>, <<"d", "a", "t", "e">>>>,
        reference     |-> "inform_consent_date",
        check         |-> "on_or_after",
        description   |-> "Visit date should be on or after informed consent date"],
       [field_pattern |-> <<<<"a", "e">>, <<"s", "t", "a", "r", "t">>, <<"d", "a", "t", "e">>>>,
        reference     |-> "ae_end_date",
        check         |-> "on_or_before",
        description   |-> "Adverse event start date should be on or before end date"] >>

\* lines 241-265: for each date field, for each check of the table
RECURSIVE DateLoop(_, _, _, _, _)
DateLoop(fields, i, j, counter, rules) ==
    IF i > Len(fields) THEN GenResult(rules, counter)
    ELSE IF j > Len(date_checks) \/ fields[i].data_type # "date"
    THEN DateLoop(fields, i + 1, 1, counter, rules)
    ELSE LET field == fields[i]
             check_config == date_checks[j] IN
         IF ReSearch(check_config.field_pattern, Lower(field.field_name))
         THEN DateLoop(fields, i, j + 1, counter + 1,
                Append(rules,
                  ValidationRule(
                    RuleId(counter + 1, DATE_CONSISTENCY),
                    <<Lit(check_config.description)>>,
                    MAJOR,
                    <<Lit("Please verify the date for "), Lit(field.field_label),
                      Lit(". "), Lit(check_config.description), Lit(".")>>,
                    DATE_CONSISTENCY,
                    field.form_name,
                    Some(field.field_name),
                    [reference_field |-> check_config.reference,
                     check_type      |-> check_config.check])))
         ELSE DateLoop(fields, i, j + 1, counter, rules)

generate_date_consistency_checks(fields, counter) == DateLoop(fields, 1, 1, counter, <<>>)

\* `field.valid_values and 'Yes' in field.valid_values`
HasYes(field) ==
    /\ field.valid_values # None
    /\ \E k \in 1..Len(field.valid_values[1]) : field.valid_values[1][k] = "Yes"

\* lines 272-295
RECURSIVE LogicalLoop(_, _, _, _)
LogicalLoop(fields, i, counter, rules) ==
    IF i > Len(fields) THEN GenResult(rules, counter)
    ELSE LET field == fields[i]
             field_lower == Lower(field.field_name) IN
         IF (Contains(<<"i", "n", "d", "i", "c", "a", "t", "e">>, field_lower) \/ Contains(<<"o", "c", "c", "u", "r", "r", "e", "d">>, field_lower))
            /\ HasYes(field)
         THEN LogicalLoop(fields, i + 1, counter + 1,
                Append(rules,
                  ValidationRule(
                    RuleId(counter + 1, LOGICAL_CHECK),
                    <<Lit("If "), Lit(field.field_label),
                      Lit(" is 'Yes', associated details must be provided")>>,
                    MAJOR,
                    <<Lit("Please provide details for "), Lit(field.field_label),
                      Lit(" as it is marked as 'Yes'.")>>,
                    LOGICAL_CHECK,
                    field.form_name,
                    Some(field.field_name),
                    [condition |-> "value = 'Yes'"])))
         ELSE LogicalLoop(fields, i + 1, counter, rules)

generate_logical_checks(fields, counter) == LogicalLoop(fields, 1, counter, <<>>)

\* line 309
IsSubjectIdField(field) ==
    /\ Contains(<<"s", "u", "b", "j", "e", "c", "t">>, Lower(field.field_name))
    /\ Contains(<<"i", "d">>, Lower(field.field_name))

\* lines 309-328.  form_names joins a set, whose order Python leaves open: the
\* joined names are kept as that set
generate_cross_form_validations(fields, counter) ==
    LET subject_id_fields == {i \in 1..Len(fields) : IsSubjectIdField(fields[i])}
        form_names == {fields[i].form_name : i \in subject_id_fields}
    IN  IF Cardinality(subject_id_fields) > 1
        THEN GenResult(
               <<ValidationRule(
                   RuleId(counter + 1, CROSS_FORM),
                   <<Lit("Check that Subject ID is consistent across all forms: "),
                     [lit |-> "", chars |-> <<>>, joined |-> form_names]>>,
                   CRITICAL,
                   <<Lit("Please verify the Subject ID. It appears to be inconsistent across forms.")>>,
                   CROSS_FORM,
                   NoneStr,
                   None,
                   [forms |-> form_names])>>,
               counter + 1)
        ELSE GenResult(<<>>, counter)

\* lines 335-356: the table of protocol deviation checks
deviation_checks ==
    << [description |-> "Check that inclusion criteria are met at screening",
        query       |-> "Please verify that all inclusion criteria were met. A protocol deviation may have occurred.",
        severity    |-> CRITICAL],
       [description |-> "Check that exclusion criteria are not violated",
        query       |-> "Please verify that no exclusion criteria were violated. A protocol deviation may have occurred.",
        severity    |-> CRITICAL],
       [description |-> "Check that visit windows are within protocol-specified ranges",
        query       |-> "Please verify the visit date. It appears to be outside the protocol-specified window.",
        severity    |-> MAJOR],
       [description |-> "Check that prohibited medications were not taken",
        query       |-> "Please verify the concomitant medication. It may be prohibited per protocol.",
        severity    |-> MAJOR] >>

\* lines 358-370
RECURSIVE DeviationLoop(_, _, _)
DeviationLoop(k, counter, rules) ==
    IF k > Len(deviation_checks) THEN GenResult(rules, counter)
    ELSE LET check == deviation_checks[k] IN
         DeviationLoop(k + 1, counter + 1,
           Append(rules,
             ValidationRule(
               RuleId(counter + 1, PROTOCOL_DEVIATION),
               <<Lit(check.description)>>,
               check.severity,
               <<Lit(check.query)>>,
               PROTOCOL_DEVIATION,
               NoneStr,
               None,
               <<>>)))

generate_protocol_deviation_checks(fields, counter) == DeviationLoop(1, counter, <<>>)

\* lines 413-420: the six generators in order, each continuing the counter
generate_all_rulesMut(fields, counter) ==
    LET r1 == generate_required_field_checks(fields, 0)
        r2 == generate_range_checks(fields, r1.rule_counter)
        r3 == generate_date_consistency_checks(fields, r2.rule_counter)
        r4 == generate_logical_checks(fields, r3.rule_counter)
        r5 == generate_cross_form_validations(fields, r4.rule_counter)
        r6 == generate_protocol_deviation_checks(fields, r5.rule_counter)
    IN  GenResult(r1.rules \o r2.rules \o r3.rules \o r4.rules \o r5.rules \o r6.rules,
                  r6.rule_counter)

generate_all_rules(fields, counter) ==
    LET r1 == generate_required_field_checks(fields, counter)
        r2 == generate_range_checks(fields, r1.rule_counter)
        r3 == generate_date_consistency_checks(fields, r2.rule_counter)
        r4 == generate_logical_checks(fields, r3.rule_counter)
        r5 == generate_cross_form_validations(fields, r4.rule_counter)
        r6 == generate_protocol_deviation_checks(fields, r5.rule_counter)
    IN  GenResult(r1.rules \o r2.rules \o r3.rules \o r4.rules \o r5.rules \o r6.rules,
                  r6.rule_counter)

----------------------------------------------------------------------------
(* DVPGenerator: state after __init__ and the public methods *)

DvpInit ==
    /\ crf_fields = <<>>
    /\ validation_rules = <<>>
    /\ rule_counter = 0
    /\ returned = <<>>
    /\ dvp_raised = NoneStr
    /\ dvp_op = "none"
    /\ issued = <<>>
    /\ all_batches = <<>>
    /\ dvp_ops = 0
    /\ summary = <<>>
    /\ exported = <<>>
    /\ constructed = NoConstruction

Issue(rules, by) == [k \in 1..Len(rules) |-> [rule_id |-> rules[k].rule_id, validation_type |-> rules[k].validation_type, by |-> by]]

\* lines 119-126: add_crf_fields extends the catalogue
AddCrfFields(fields) ==
    /\ UNCHANGED <<orch_vars, proc_vars, backup_vars, summary, exported>>
    /\ constructed' = NoConstruction
    /\ dvp_ops < MaxDvpOps
    /\ dvp_ops' = dvp_ops + 1
    /\ dvp_op' = "add_crf_fields"
    /\ crf_fields' = crf_fields \o fields
    /\ returned' = <<>>
    /\ dvp_raised' = NoneStr
    /\ UNCHANGED <<validation_rules, rule_counter, issued, all_batches>>

GeneratorNames == {"generate_required_field_checks", "generate_range_checks",
                   "generate_date_consistency_checks", "generate_logical_checks",
                   "generate_cross_form_validations", "generate_protocol_deviation_checks"}

Generator(g, fields, counter) ==
    CASE g = "generate_required_field_checks"     -> generate_required_field_checks(fields, counter)
      [] g = "generate_range_checks"              -> generate_range_checks(fields, counter)
      [] g = "generate_date_consistency_checks"   -> generate_date_consistency_checks(fields, counter)
      [] g = "generate_logical_checks"            -> generate_logical_checks(fields, counter)
      [] g = "generate_cross_form_validations"    -> generate_cross_form_validations(fields, counter)
      [] g = "generate_protocol_deviation_checks" -> generate_protocol_deviation_checks(fields, counter)

\* a caller invokes one of the six generator methods directly: the rules are
\* returned, the counter advances, validation_rules is not touched
CallGeneratorMut(g) ==
    /\ UNCHANGED <<orch_vars, proc_vars, backup_vars, summary, exported>>
    /\ constructed' = NoConstruction
    /\ dvp_ops < MaxDvpOps
    /\ dvp_ops' = dvp_ops + 1
    /\ dvp_op' = g
    /\ LET r == Generator(g, crf_fields, rule_counter) IN
         /\ returned' = r.rules
         /\ validation_rules' = validation_rules \o r.rules
         /\ rule_counter' = r.rule_counter
         /\ issued' = issued \o Issue(r.rules, g)
    /\ dvp_raised' = NoneStr
    /\ UNCHANGED <<crf_fields, all_batches>>
CallGenerator(g) ==
    /\ UNCHANGED <<orch_vars, proc_vars, backup_vars, summary, exported>>
    /\ constructed' = NoConstruction
    /\ dvp_ops < MaxDvpOps
    /\ dvp_ops' = dvp_ops + 1
    /\ dvp_op' = g
    /\ LET r == Generator(g, crf_fields, rule_counter) IN
         /\ returned' = r.rules
         /\ rule_counter' = r.rule_counter
         /\ issued' = issued \o Issue(r.rules, g)
    /\ dvp_raised' = NoneStr
    /\ UNCHANGED <<crf_fields, validation_rules, all_batches>>

\* lines 411-423: generate_all_rules extends validation_rules with the batch
\* and returns the batch
GenerateAllRulesMut ==
    /\ UNCHANGED <<orch_vars, proc_vars, backup_vars, summary, exported>>
    /\ constructed' = NoConstruction
    /\ dvp_ops < MaxDvpOps
    /\ dvp_ops' = dvp_ops + 1
    /\ dvp_op' = "generate_all_rules"
    /\ LET r == generate_all_rules(crf_fields, rule_counter) IN
         /\ returned' = validation_rules \o r.rules
         /\ rule_counter' = r.rule_counter
         /\ validation_rules' = validation_rules \o r.rules
         /\ issued' = issued \o Issue(r.rules, "generate_all_rules")
         /\ all_batches' = Append(all_batches,
                                  [rules          |-> r.rules,
                                   fields         |-> crf_fields,
                                   counter_before |-> rule_counter])
    /\ dvp_raised' = NoneStr
    /\ UNCHANGED crf_fields

GenerateAllRules ==
    /\ UNCHANGED <<orch_vars, proc_vars, backup_vars, summary, exported>>
    /\ constructed' = NoConstruction
    /\ dvp_ops < MaxDvpOps
    /\ dvp_ops' = dvp_ops + 1
    /\ dvp_op' = "generate_all_rules"
    /\ LET r == generate_all_rules(crf_fields, rule_counter) IN
         /\ returned' = r.rules
         /\ rule_counter' = r.rule_counter
         /\ validation_rules' = validation_rules \o r.rules
         /\ issued' = issued \o Issue(r.rules, "generate_all_rules")
         /\ all_batches' = Append(all_batches,
                                  [rules          |-> r.rules,
                                   fields         |-> crf_fields,
                                   counter_before |-> rule_counter])
    /\ dvp_raised' = NoneStr
    /\ UNCHANGED crf_fields

\* lines 395-409: the id is generated first (the counter advances), then the
\* rule is constructed (__post_init__ may raise ValueError), then appended
AddCustomRule(description, query_text, severity, validation_type) ==
    /\ UNCHANGED <<orch_vars, proc_vars, backup_vars, summary, exported>>
    /\ dvp_ops < MaxDvpOps
    /\ dvp_ops' = dvp_ops + 1
    /\ dvp_op' = "add_custom_rule"
    /\ rule_counter' = rule_counter + 1
    /\ LET rule_id == RuleId(rule_counter + 1, validation_type)
           rule == ValidationRule(rule_id, description, severity, query_text,
                                  validation_type, NoneStr, None, <<>>)
       IN  /\ constructed' = Construction(rule_id, description, query_text)
           /\ IF PostInitOk(rule_id, description, query_text)
              THEN /\ validation_rules' = Append(validation_rules, rule)
                   /\ returned' = <<rule>>
                   /\ issued' = issued \o Issue(<<rule>>, "add_custom_rule")
                   /\ dvp_raised' = NoneStr
              ELSE /\ dvp_raised' = "ValueError"
                   /\ returned' = <<>>
                   /\ UNCHANGED <<validation_rules, issued>>
    /\ UNCHANGED <<crf_fields, all_batches>>

\* arguments callers pass to add_custom_rule
CustomTypes == {CUSTOM, RANGE_CHECK}

\* rule ids, descriptions and query texts a caller passes to the dataclass
CallerRuleIds == {[prefix |-> "", sep |-> "", number |-> <<>>],
                  [prefix |-> "TEST", sep |-> "-", number |-> <<"0", "0", "1">>]}
CallerTexts(text) == {<<Lit("")>>, <<Lit(text)>>}

\* lines 47-66: a caller constructs ValidationRule(...) itself; the generator
\* takes no part in it
NewValidationRule(rule_id, description, query_text) ==
    /\ UNCHANGED <<orch_vars, proc_vars, backup_vars, summary, exported>>
    /\ dvp_ops < MaxDvpOps
    /\ dvp_ops' = dvp_ops + 1
    /\ dvp_op' = "ValidationRule"
    /\ constructed' = Construction(rule_id, description, query_text)
    /\ dvp_raised' = IF PostInitOk(rule_id, description, query_text)
                     THEN NoneStr ELSE "ValueError"
    /\ returned' = <<>>
    /\ UNCHANGED <<crf_fields, validation_rules, rule_counter, issued, all_batches>>

\* line 651: summary[type_name] = summary.get(type_name, 0) + 1
SummaryStepMut(dict, type_name) == (type_name :> 1) @@ dict
SummaryStep(dict, type_name) ==
    (type_name :> ((IF type_name \in DOMAIN dict THEN dict[type_name] ELSE 0) + 1)) @@ dict

\* lines 648-652: one pass over self.validation_rules
RECURSIVE SummaryLoop(_, _, _)
SummaryLoop(rules, i, dict) ==
    IF i > Len(rules) THEN dict
    ELSE SummaryLoop(rules, i + 1, SummaryStep(dict, rules[i].validation_type))

get_rules_summary(rules) == SummaryLoop(rules, 1, <<>>)

\* a caller invokes get_rules_summary(): nothing of the generator changes
GetRulesSummary ==
    /\ UNCHANGED <<orch_vars, proc_vars, backup_vars, exported>>
    /\ constructed' = NoConstruction
    /\ dvp_ops < MaxDvpOps
    /\ dvp_ops' = dvp_ops + 1
    /\ dvp_op' = "get_rules_summary"
    /\ summary' = get_rules_summary(validation_rules)
    /\ returned' = <<>>
    /\ dvp_raised' = NoneStr
    /\ UNCHANGED <<crf_fields, validation_rules, rule_counter, issued, all_batches>>

\* lines 630-644: one dict per rule of self.validation_rules, in order
export_rules_to_dict(rules) ==
    [i \in 1..Len(rules) |->
        [rule_id         |-> rules[i].rule_id,
         description     |-> rules[i].description,
         severity        |-> rules[i].severity,
         query_text      |-> rules[i].query_text,
         validation_type |-> rules[i].validation_type,
         form_name       |-> rules[i].form_name,
         field_name      |-> rules[i].field_name,
         details         |-> rules[i].details]]

\* a caller invokes export_rules_to_dict(): nothing of the generator changes
ExportRulesToDict ==
    /\ UNCHANGED <<orch_vars, proc_vars, backup_vars, summary>>
    /\ constructed' = NoConstruction
    /\ dvp_ops < MaxDvpOps
    /\ dvp_ops' = dvp_ops + 1
    /\ dvp_op' = "export_rules_to_dict"
    /\ exported' = export_rules_to_dict(validation_rules)
    /\ returned' = <<>>
    /\ dvp_raised' = NoneStr
    /\ UNCHANGED <<crf_fields, validation_rules, rule_counter, issued, all_batches>>

DvpNext ==
    \/ \E f \in FieldPool : AddCrfFields(<<f>>)
    \/ \E g \in GeneratorNames : CallGenerator(g)
    \/ GenerateAllRules
    \/ GetRulesSummary
    \/ ExportRulesToDict
    \/ \E d \in CallerTexts("Custom test rule"),
          q \in CallerTexts("This is a custom query"),
          vt \in CustomTypes :
            AddCustomRule(d, q, MINOR, vt)
    \/ \E id \in CallerRuleIds,
          d \in CallerTexts("Custom test rule"),
          q \in CallerTexts("This is a custom query") :
            NewValidationRule(id, d, q)

----------------------------------------------------------------------------
(* The constructor, BatchProcessor and main() *)

\* files on disk, and the paths callers pass
ExistingFiles == {"protocol.pdf"}
Paths == {"protocol.pdf", "missing.pdf"}

\* values of an api_key argument and of the environment variable
ApiKeys == {NoneStr, "", "your-gemini-api-key"}
EnvKeys == {NoneStr, "env-gemini-api-key"}

NoCtor == [n |-> 0, path |-> NoneStr, api_key |-> NoneStr, raised |-> NoneStr]

NoArgs == [protocol |-> NoneStr, batch |-> <<>>, api_key |-> NoneStr, generate |-> {}, no_backup |-> FALSE]

NoSummary == [written |-> FALSE, count |-> 0, entries |-> <<>>,
              total_completed |-> 0, total_failed |-> 0, total_skipped |-> 0]

ProcInit ==
    /\ api_key = "your-gemini-api-key"
    /\ env_key = NoneStr
    /\ ctor = NoCtor
    /\ main_pc = "none"
    /\ argv = NoArgs
    /\ base_dir = FALSE
    /\ batch_i = 0
    /\ results = <<>>
    /\ attempts = <<>>
    /\ batch_summary = NoSummary
    /\ exit_code = -1
    /\ exit_via = "none"
    /\ backup_enabled = TRUE
    /\ backups = <<>>

\* ClinicalDocAutomation.__init__, lines 187-194: the only test is that the
\* PDF exists; api_key is stored as given
CtorRaisesMut(path, key) ==
    IF path \notin ExistingFiles THEN "FileNotFoundError"
    ELSE IF ~Truthy(key) THEN "ValueError" ELSE NoneStr
CtorRaises(path, key) == IF path \notin ExistingFiles THEN "FileNotFoundError" ELSE NoneStr

\* lines 187-220 when nothing is raised: a new instance with an empty report
\* in a new output directory (mkdir creates the parents)
NewOrchestrator(path, key, backup) ==
    /\ report' = AutomationReport
    /\ protocol_info' = [set |-> FALSE, protocol_number |-> NoneStr]
    /\ report_files' = [f \in {"json", "text"} |-> NoReportFile]
    /\ pc' = "idle"
    /\ cur' = "none"
    /\ op' = "none"
    /\ generate_types' = [kind |-> "none", types |-> {}]
    /\ run_base' = 0
    /\ ra_outcome' = "none"
    /\ ret' = NoneStr
    /\ ra_if' = 0
    /\ calls' = 0
    /\ api_key' = key
    /\ base_dir' = TRUE
    /\ backup_enabled' = backup
    /\ backups' = <<>>
    /\ ctor' = [n |-> ctor.n + 1, path |-> path, api_key |-> key, raised |-> NoneStr]

\* the constructor raised: no instance, nothing changes but the record of the call
NoOrchestrator(path, key) ==
    /\ ctor' = [n |-> ctor.n + 1, path |-> path, api_key |-> key,
                raised |-> CtorRaises(path, key)]
    /\ UNCHANGED <<orch_vars, api_key, base_dir, backup_vars>>

\* command lines: --protocol P | --batch P..., --api-key K, --generate T...,
\* --no-backup (read only by the single-protocol branch, line 1202)
BatchLists == UNION {[1..n -> Paths] : n \in 0..MaxBatch}
CliGenerate == {{"all"}, {"crf", "dvp"}, {"dmp"}}
CliArgs ==
    [protocol : {NoneStr} \cup Paths, batch : {<<>>},
     api_key : {NoneStr, "your-gemini-api-key"}, generate : CliGenerate,
     no_backup : BOOLEAN]
    \cup
    [protocol : {NoneStr} \cup Paths, batch : BatchLists \ {<<>>},
     api_key : {NoneStr, "your-gemini-api-key"}, generate : CliGenerate \ {{"all"}},
     no_backup : {FALSE}]

\* lines 1190-1192: 'all' stands for the four types
CliTypes(generate) ==
    [kind |-> "list", types |-> IF "all" \in generate THEN GenTypes ELSE generate]

\* lines 1177-1192 and 1214-1224: argument checks (parser.error exits with 2),
\* then the branch for one protocol or for a batch; BatchProcessor.__init__
\* starts with empty results and process_protocols enters its loop
MainWith(a, env, dir) ==
    /\ UNCHANGED <<orch_vars, dvp_vars, backup_vars>>
    /\ argv' = a
    /\ env_key' = env
    /\ base_dir' = dir
    /\ results' = <<>>
    /\ UNCHANGED <<api_key, ctor, attempts, batch_summary>>
    /\ IF \/ (~Truthy(a.protocol) /\ a.batch = <<>>)
          \/ (Truthy(a.protocol) /\ a.batch # <<>>)
          \/ ~(Truthy(a.api_key) \/ Truthy(env))
       THEN /\ main_pc' = "exited" /\ exit_code' = 2 /\ exit_via' = "parser_error"
            /\ batch_i' = 0
       ELSE /\ UNCHANGED <<exit_code, exit_via>>
            /\ IF Truthy(a.protocol)
               THEN main_pc' = "single" /\ batch_i' = 0
               ELSE main_pc' = "batch" /\ batch_i' = 1

\* the process starts: main() with a command line, in an environment
Main ==
    /\ main_pc = "none"
    /\ \E a \in CliArgs, env \in EnvKeys, dir \in BOOLEAN : MainWith(a, env, dir)

\* api_key = args.api_key or os.getenv('GEMINI_API_KEY'), line 1185
MainApiKey == IF Truthy(argv.api_key) THEN argv.api_key ELSE env_key

\* lines 1196-1203; an exception of the constructor reaches `except Exception`
\* of main (lines 1233-1236): exit code 1
SingleConstruct ==
    /\ UNCHANGED dvp_vars
    /\ main_pc = "single"
    /\ IF CtorRaises(argv.protocol, MainApiKey) = NoneStr
       THEN /\ NewOrchestrator(argv.protocol, MainApiKey, ~argv.no_backup)
            /\ main_pc' = "single_built"
            /\ UNCHANGED <<exit_code, exit_via>>
       ELSE /\ NoOrchestrator(argv.protocol, MainApiKey)
            /\ main_pc' = "exited" /\ exit_code' = 1 /\ exit_via' = "except_exception"
    /\ UNCHANGED <<env_key, argv, batch_i, results, attempts, batch_summary>>

\* line 1205: report = automation.run_all(generate_types=generate_types)
SingleRunAll ==
    /\ main_pc = "single_built" /\ calls = 0
    /\ CallRunAll(CliTypes(argv.generate))

\* lines 1207-1211: the exit code of the single-protocol branch
SingleExit ==
    /\ UNCHANGED <<orch_vars, dvp_vars, backup_vars>>
    /\ main_pc = "single_built" /\ calls = 1 /\ pc = "idle"
    /\ main_pc' = "exited"
    /\ exit_code' = IF report.failed_tasks > 0 THEN 1 ELSE 0
    /\ exit_via' = "sys_exit"
    /\ UNCHANGED <<api_key, env_key, ctor, argv, base_dir, batch_i, results, attempts,
                   batch_summary>>

\* the api key and generate_types process_protocols works with
BatchApiKey == MainApiKey
BatchTypes == CliTypes(argv.generate)

\* lines 1013-1029 and 1036-1038: one pass of the loop up to the constructor.
\* An exception is printed and the loop goes on with the next input
BatchConstructMut ==
    /\ UNCHANGED dvp_vars
    /\ main_pc = "batch" /\ batch_i <= Len(argv.batch)
    /\ LET pdf_path == argv.batch[batch_i] IN
       IF CtorRaises(pdf_path, BatchApiKey) = NoneStr
       THEN /\ NewOrchestrator(pdf_path, BatchApiKey, TRUE)
            /\ main_pc' = "batch_built"
            /\ UNCHANGED <<batch_i, attempts>>
       ELSE /\ NoOrchestrator(pdf_path, BatchApiKey)
            /\ batch_i' = Len(argv.batch) + 1
            /\ attempts' = Append(attempts, [path |-> pdf_path, raised |-> TRUE])
            /\ UNCHANGED main_pc
    /\ UNCHANGED <<env_key, argv, results, batch_summary, exit_code, exit_via>>

BatchConstruct ==
    /\ UNCHANGED dvp_vars
    /\ main_pc = "batch" /\ batch_i <= Len(argv.batch)
    /\ LET pdf_path == argv.batch[batch_i] IN
       IF CtorRaises(pdf_path, BatchApiKey) = NoneStr
       THEN /\ NewOrchestrator(pdf_path, BatchApiKey, TRUE)
            /\ main_pc' = "batch_built"
            /\ UNCHANGED <<batch_i, attempts>>
       ELSE /\ NoOrchestrator(pdf_path, BatchApiKey)
            /\ batch_i' = batch_i + 1
            /\ attempts' = Append(attempts, [path |-> pdf_path, raised |-> TRUE])
            /\ UNCHANGED main_pc
    /\ UNCHANGED <<env_key, argv, results, batch_summary, exit_code, exit_via>>

\* line 1031: report = automation.run_all(generate_types=generate_types)
BatchRunAll ==
    /\ main_pc = "batch_built" /\ calls = 0
    /\ CallRunAll(BatchTypes)

\* line 1032: self.results.append((pdf_path, report)), then the next input
BatchAppend ==
    /\ UNCHANGED <<orch_vars, dvp_vars, backup_vars>>
    /\ main_pc = "batch_built" /\ calls = 1 /\ pc = "idle"
    /\ results' = Append(results, [path |-> argv.batch[batch_i], report |-> report])
    /\ attempts' = Append(attempts, [path |-> argv.batch[batch_i], raised |-> FALSE])
    /\ batch_i' = batch_i + 1
    /\ main_pc' = "batch"
    /\ UNCHANGED <<api_key, env_key, ctor, argv, base_dir, batch_summary, exit_code, exit_via>>

RECURSIVE SumOver(_, _, _)
SumOver(res, field, i) ==
    IF i > Len(res) THEN 0 ELSE res[i].report[field] + SumOver(res, field, i + 1)

\* lines 1049-1085: one entry per element of self.results, then the totals
GenerateBatchSummary(res) ==
    [written         |-> TRUE,
     count           |-> Len(res),
     entries         |-> [i \in 1..Len(res) |->
                            [name            |-> res[i].path,
                             completed_tasks |-> res[i].report.completed_tasks,
                             failed_tasks    |-> res[i].report.failed_tasks,
                             skipped_tasks   |-> res[i].report.skipped_tasks,
                             generated_files |-> Len(res[i].report.generated_files)]],
     total_completed |-> SumOver(res, "completed_tasks", 1),
     total_failed    |-> SumOver(res, "failed_tasks", 1),
     total_skipped   |-> SumOver(res, "skipped_tasks", 1)]

\* lines 1045-1047 after the loop: the summary file is opened in the base
\* directory, which exists only if it was there before or some constructor
\* created it; open() raising FileNotFoundError reaches `except Exception` of main
BatchSummary ==
    /\ UNCHANGED <<orch_vars, dvp_vars, backup_vars>>
    /\ main_pc = "batch" /\ batch_i > Len(argv.batch)
    /\ IF base_dir
       THEN /\ batch_summary' = GenerateBatchSummary(results)
            /\ main_pc' = "batch_returned"
            /\ UNCHANGED <<exit_code, exit_via>>
       ELSE /\ main_pc' = "exited" /\ exit_code' = 1 /\ exit_via' = "except_exception"
            /\ UNCHANGED batch_summary
    /\ UNCHANGED <<api_key, env_key, ctor, argv, base_dir, batch_i, results, attempts>>

\* lines 1226-1228: the exit code of the batch branch
BatchExitCodeMut(res) == IF res # <<>> /\ res[1].report.failed_tasks > 0 THEN 1 ELSE 0
BatchExitCode(res) == IF \E i \in 1..Len(res) : res[i].report.failed_tasks > 0 THEN 1 ELSE 0

BatchExit ==
    /\ UNCHANGED <<orch_vars, dvp_vars, backup_vars>>
    /\ main_pc = "batch_returned"
    /\ main_pc' = "exited"
    /\ exit_code' = BatchExitCode(results)
    /\ exit_via' = "sys_exit"
    /\ UNCHANGED <<api_key, env_key, ctor, argv, base_dir, batch_i, results, attempts,
                   batch_summary>>

\* lines 1230-1232: the user interrupts the process inside the try block of
\* main.  KeyboardInterrupt is not an Exception: no handler of a step, of
\* run_all or of process_protocols catches it; the finally block of a run_all
\* in progress still writes the final report
Interrupt ==
    /\ UNCHANGED <<dvp_vars, backup_vars>>
    /\ main_pc \in {"single", "single_built", "batch", "batch_built", "batch_returned"}
    /\ main_pc' = "exited" /\ exit_code' = 130 /\ exit_via' = "keyboard_interrupt"
    /\ IF pc # "idle"
       THEN /\ report' = GenerateFinalReport(report)
            /\ report_files' = [f \in {"json", "text"} |->
                                  [written |-> TRUE, content |-> GenerateFinalReport(report)]]
            /\ ra_outcome' = "raised"
            /\ pc' = "idle" /\ ra_if' = 0
            /\ UNCHANGED <<protocol_info, cur, op, generate_types, run_base, ret, calls>>
       ELSE UNCHANGED orch_vars
    /\ UNCHANGED <<api_key, env_key, ctor, argv, base_dir, batch_i, results, attempts,
                   batch_summary>>

\* a program using the class directly: automation = ClinicalDocAutomation(path, key)
Construct(path, key, env, backup) ==
    /\ UNCHANGED dvp_vars
    /\ env_key' = env
    /\ IF CtorRaises(path, key) = NoneStr
       THEN NewOrchestrator(path, key, backup) /\ main_pc' = "lib_built"
       ELSE NoOrchestrator(path, key) /\ main_pc' = "lib_raised"
    /\ UNCHANGED <<argv, batch_i, results, attempts, batch_summary, exit_code, exit_via>>

LibConstruct ==
    /\ main_pc = "none"
    /\ \E path \in Paths, key \in ApiKeys, env \in EnvKeys, backup \in BOOLEAN :
          Construct(path, key, env, backup)

\* ... followed by automation.run_all(generate_types)
LibRunAll(gt) ==
    /\ main_pc = "lib_built" /\ calls = 0
    /\ CallRunAll(gt)

LibTypes == {[kind |-> "none", types |-> {}], [kind |-> "list", types |-> {"crf"}]}

ProcNext ==
    \/ Main
    \/ SingleConstruct
    \/ SingleRunAll
    \/ SingleExit
    \/ BatchConstruct
    \/ BatchRunAll
    \/ BatchAppend
    \/ BatchSummary
    \/ BatchExit
    \/ Interrupt
    \/ LibConstruct
    \/ \E gt \in LibTypes : LibRunAll(gt)
    \/ MarkRunning
    \/ \E pn \in ProtocolNumbers : ParseComplete(pn)
    \/ \E stage \in {"parse", "save"}, pn \in ProtocolNumbers : ParseFail(stage, pn)
    \/ GenerateComplete
    \/ GenerateFail
    \/ GenerateDmp
    \/ RunAllIf
    \/ RunAllEndTry
    \/ RunAllFinally

----------------------------------------------------------------------------
(* Specifications *)

Init == OrchInit /\ DvpInit /\ ProcInit

Spec == Init /\ [][Next]_vars

SpecDVP == Init /\ [][DvpNext]_vars

SpecMain == Init /\ [][ProcNext]_vars

----------------------------------------------------------------------------
(* Properties of the orchestrator *)

\* the task records appended since the last run_all began
RunTasks == SubSeq(report.tasks, run_base + 1, Len(report.tasks))

RunTaskTypes == [i \in 1..Len(RunTasks) |-> RunTasks[i].task_type]

\* the last call was run_all and it has returned
RunAllEnded == op = "run_all" /\ pc = "idle"

\* the parse step of the last run_all ended in the given status
RunParse(status) ==
    /\ op = "run_all"
    /\ Len(RunTasks) >= 1
    /\ RunTasks[1].task_type = "protocol_parsing"
    /\ RunTasks[1].status = status

\* C1: a task whose status is terminal (completed, failed, skipped) keeps that
\* status in every later step of the orchestrator, and is never removed; in
\* particular a completed task is never marked failed afterwards.
C1_TerminalIsFinal ==
    [][\A i \in 1..Len(report.tasks) :
          report.tasks[i].status \in TerminalStatus
            => /\ Len(report'.tasks) >= i
               /\ report'.tasks[i].status = report.tasks[i].status]_vars

\* a completed task is still completed after a later step has failed
C1_Witness ==
    \E i, j \in 1..Len(report.tasks) :
        /\ i < j
        /\ report.tasks[i].status = "completed"
        /\ report.tasks[j].status = "failed"

\* C2: when the parse step of a run_all fails, the run goes straight to its
\* final report: the run has exactly one task record, the failed parse task,
\* total_tasks counts only it (1 on a fresh orchestrator), and no crf, dvp,
\* user_guide or dmp record is created by the run.
C2_ParseFailureHalts ==
    RunParse("failed")
      => /\ pc \in {"ra_finally", "idle"}
         /\ Len(RunTasks) = 1
         /\ report.total_tasks = run_base + 1
         /\ \A i \in 1..Len(RunTasks) : RunTasks[i].task_type \notin GenTypes

\* a run_all on a fresh orchestrator that requested documents and whose parse failed
C2_Witness ==
    /\ RunAllEnded /\ RunParse("failed")
    /\ run_base = 0
    /\ EffectiveTypes(generate_types) = GenTypes
    /\ report.total_tasks = 1

\* C3: after a successful parse, a run_all that has returned holds a task
\* record for every requested generation type, whatever the outcome of the
\* earlier requested steps.
C3_StepsIndependent ==
    (RunAllEnded /\ RunParse("completed") /\ generate_types.kind # "not_iterable")
      => \A t \in EffectiveTypes(generate_types) :
            \E i \in 2..Len(RunTasks) : RunTasks[i].task_type = t

\* a run in which crf failed and the later requested steps still got their records
C3_Witness ==
    /\ RunAllEnded /\ RunParse("completed")
    /\ EffectiveTypes(generate_types) = GenTypes
    /\ Len(RunTasks) = 5
    /\ RunTasks[2].task_type = "crf" /\ RunTasks[2].status = "failed"
    /\ RunTasks[3].status = "completed"
    /\ RunTasks[5].task_type = "dmp"

C5_TasksMatchRequest ==
    (RunAllEnded /\ RunParse("completed") /\ generate_types.kind # "not_iterable")
      => LET S == IF generate_types.kind = "none"
                  THEN {"crf", "dvp", "user_guide", "dmp"}
                  ELSE generate_types.types
         IN
         /\ RunTaskTypes = <<"protocol_parsing">>
                             \o SelectSeq(<<"crf", "dvp", "user_guide", "dmp">>,
                                          LAMBDA t : t \in S)
         /\ report.total_tasks = run_base + 1 + Cardinality(S)

\* the scenario of the spec: generate_types = ['crf', 'dvp'] on a fresh orchestrator
C5_Witness ==
    /\ RunAllEnded /\ RunParse("completed")
    /\ run_base = 0
    /\ generate_types = [kind |-> "list", types |-> {"crf", "dvp"}]
    /\ report.total_tasks = 3
    /\ RunTaskTypes = <<"protocol_parsing", "crf", "dvp">>

----------------------------------------------------------------------------
(* Properties of the single steps and of the report *)

\* the task record a step method is working on, after the step
LastTask(rep) == rep.tasks[Len(rep.tasks)]

\* C15: the DMP step records its task as skipped with the fixed
\* not-implemented message and returns True, whether or not a protocol has
\* been parsed; it never marks the task running and never adds to
\* failed_tasks, and no dmp task ever has another terminal status.
C15_DmpStub ==
    [][ /\ (pc = "created" /\ cur = "dmp")
          => /\ Len(report'.tasks) = Len(report.tasks)
             /\ LastTask(report').task_type = "dmp"
             /\ LastTask(report').status = "skipped"
             /\ LastTask(report').error_message = "DMP generator not implemented"
             /\ ret' = "True"
             /\ report'.failed_tasks = report.failed_tasks
             /\ report'.skipped_tasks = report.skipped_tasks + 1
        /\ \A i \in 1..Len(report'.tasks) :
              report'.tasks[i].task_type = "dmp"
                 => report'.tasks[i].status \in {"pending", "skipped"} ]_vars

\* generate_dmp called directly on an orchestrator that has parsed nothing
C15_Witness ==
    /\ op = "generate_dmp" /\ pc = "idle"
    /\ ~protocol_info.set
    /\ ret = "True"
    /\ LastTask(report).status = "skipped"
    /\ report.failed_tasks = 0

\* C16: generate_crf, generate_dvp or generate_user_guide called while no
\* protocol has been parsed records the task as skipped with an explanatory
\* message and returns False to the caller; the task is never marked running,
\* no output is recorded and failed_tasks does not change.
C16_PreconditionSkip ==
    [][ (pc = "created" /\ cur \in {"crf", "dvp", "user_guide"} /\ ~protocol_info.set)
          => /\ Len(report'.tasks) = Len(report.tasks)
             /\ LastTask(report').task_type = cur
             /\ LastTask(report').status = "skipped"
             /\ LastTask(report').error_message \notin {"None", ""}
             /\ LastTask(report').start_time = "None"
             /\ LastTask(report').output_path = "None"
             /\ ret' = "False"
             /\ pc' = "idle"
             /\ report'.failed_tasks = report.failed_tasks
             /\ report'.skipped_tasks = report.skipped_tasks + 1
             /\ report'.generated_files = report.generated_files
             /\ protocol_info' = protocol_info ]_vars

\* generate_dvp returned False on an orchestrator that has parsed nothing
C16_Witness ==
    /\ op = "generate_dvp" /\ pc = "idle"
    /\ ~protocol_info.set
    /\ ret = "False"
    /\ LastTask(report).task_type = "dvp"
    /\ LastTask(report).status = "skipped"
    /\ report.failed_tasks = 0

\* C17: once generate_final_report has set end_time, no later operation on the
\* same orchestrator changes the task list, the counters, the generated-file
\* list or the error list of the report.
C17_ReadOnlyAfterEnd ==
    [][ report.end_time # "None"
          => /\ report'.tasks = report.tasks
             /\ report'.total_tasks = report.total_tasks
             /\ report'.completed_tasks = report.completed_tasks
             /\ report'.failed_tasks = report.failed_tasks
             /\ report'.skipped_tasks = report.skipped_tasks
             /\ report'.generated_files = report.generated_files
             /\ report'.errors = report.errors ]_vars

----------------------------------------------------------------------------
(* Properties of the constructor, the batch runner and the command line *)

\* the reports of the orchestrators this process has run to the end
ProcessReports ==
    IF argv.batch # <<>> THEN [i \in 1..Len(results) |-> results[i].report]
    ELSE IF ctor.n > 0 /\ ctor.raised = "None" THEN <<report>>
    ELSE <<>>

AnyTaskFailed ==
    \E i \in 1..Len(ProcessReports) :
        \E j \in 1..Len(ProcessReports[i].tasks) :
            ProcessReports[i].tasks[j].status = "failed"

\* main() has ended a run whose command line it accepted
RunExited == main_pc = "exited" /\ exit_via # "parser_error"

\* C11 (as stated): the exit code is 0 whenever no task failed and 1 whenever
\* at least one task failed, 130 only on user interrupt, in single-protocol
\* mode and in batch mode.
C11_ExitCodeIffTaskFailed ==
    RunExited
      => /\ exit_code \in {0, 1, 130}
         /\ exit_code = 130 => exit_via = "keyboard_interrupt"
         /\ exit_via # "keyboard_interrupt"
               => (exit_code = 1 <=> AnyTaskFailed) /\ (exit_code = 0 <=> ~AnyTaskFailed)

\* C11 (amended): unless the user interrupts (130), the exit code is 1
\* whenever at least one task failed and 0 only when no task failed; it is
\* also 1, with no failed task, exactly when an exception reaches main: the
\* constructor raising in single-protocol mode, or the batch summary that
\* cannot be written.
C11_ExitCode ==
    RunExited
      => /\ exit_code \in {0, 1, 130}
         /\ exit_code = 130 <=> exit_via = "keyboard_interrupt"
         /\ exit_via # "keyboard_interrupt"
               => /\ AnyTaskFailed => exit_code = 1
                  /\ exit_code = 0 => ~AnyTaskFailed
                  /\ (exit_code = 1 /\ ~AnyTaskFailed) <=> exit_via = "except_exception"
                  /\ exit_via = "except_exception"
                        <=> \/ (argv.batch = <<>> /\ ctor.raised # "None")
                            \/ (argv.batch # <<>> /\ ~batch_summary.written)

\* a batch whose second input alone has a failed task exits with 1
C11_Witness ==
    /\ main_pc = "exited" /\ exit_via = "sys_exit" /\ exit_code = 1
    /\ Len(results) = 2
    /\ results[1].report.failed_tasks = 0
    /\ results[2].report.failed_tasks > 0

\* the inputs process_protocols has not been kept from by an interrupt
LoopDone == main_pc = "batch_returned"
            \/ (main_pc = "batch" /\ batch_i > Len(argv.batch))
            \/ (main_pc = "exited" /\ exit_via \in {"sys_exit", "except_exception"})

\* C12: process_protocols handles the inputs in list order; an input whose
\* constructor raises is passed over and the following inputs are still
\* handled; results holds one (path, report) entry, in input order, for
\* exactly the inputs that did not raise, each with a finished report.
C12_BatchIsolation ==
    argv.batch # <<>>
      => /\ Len(attempts) <= Len(argv.batch)
         /\ \A k \in 1..Len(attempts) :
               /\ attempts[k].path = argv.batch[k]
               /\ attempts[k].raised <=> argv.batch[k] = "missing.pdf"
         /\ LET ran == SelectSeq(attempts, LAMBDA a : ~a.raised) IN
               /\ Len(results) = Len(ran)
               /\ \A k \in 1..Len(results) :
                     /\ results[k].path = ran[k].path
                     /\ results[k].report.end_time # "None"
                     /\ results[k].report.tasks # <<>>
         /\ LoopDone => Len(attempts) = Len(argv.batch)

\* three inputs, the first and the last raise, the one between them is run
C12_Witness ==
    /\ main_pc = "batch_returned"
    /\ Len(argv.batch) = 3
    /\ attempts[1].raised /\ ~attempts[2].raised /\ attempts[3].raised
    /\ Len(results) = 1
    /\ batch_summary.written

\* C13: in a batch of three inputs where the constructor raises for one and
\* the two others run without a failed task, the summary holds the entries
\* and counts of exactly the two others, and the exit code reflects the
\* input that raised (it is not 0).
C13_FailingInputInExitStatus ==
    ( /\ main_pc = "exited" /\ exit_via = "sys_exit"
      /\ Len(argv.batch) = 3
      /\ Cardinality({k \in 1..3 : argv.batch[k] = "missing.pdf"}) = 1
      /\ \A k \in 1..Len(results) : results[k].report.failed_tasks = 0 )
      => /\ batch_summary.written
         /\ batch_summary.count = 2
         /\ Len(batch_summary.entries) = 2
         /\ \A k \in 1..2 :
               /\ batch_summary.entries[k].name = "protocol.pdf"
               /\ batch_summary.entries[k].failed_tasks = 0
               /\ batch_summary.entries[k].completed_tasks
                    = results[k].report.completed_tasks
         /\ batch_summary.total_failed = 0
         /\ batch_summary.total_completed
              = results[1].report.completed_tasks + results[2].report.completed_tasks
         /\ exit_code # 0

----------------------------------------------------------------------------
(* Properties of the rule generator *)

\* the number written in a rule id
RECURSIVE DigitsValue(_)
DigitsValue(cs) ==
    IF cs = <<>> THEN 0
    ELSE 10 * DigitsValue(SubSeq(cs, 1, Len(cs) - 1))
         + (CHOOSE d \in 0..9 : DigitChar[d + 1] = cs[Len(cs)])

\* the id prefix the specification assigns to each category
ExpectedPrefix(validation_type) ==
    CASE validation_type = "Range Check"           -> "RNG"
      [] validation_type = "Required Field"        -> "REQ"
      [] validation_type = "Logical Check"         -> "LOG"
      [] validation_type = "Cross-Form Validation" -> "CRS"
      [] validation_type = "Date Consistency"      -> "DAT"
      [] validation_type = "Protocol Deviation"    -> "PRO"
      [] validation_type = "Custom"                -> "CUS"

\* C7: generate_required_field_checks returns one rule per required field of
\* the catalogue, in catalogue order, each of category Required Field and
\* severity Critical, and nothing for a field that is not required.
C7_RequiredFieldChecks ==
    dvp_op = "generate_required_field_checks"
      => LET req == SelectSeq(crf_fields, LAMBDA f : f.required = TRUE) IN
         /\ Len(returned) = Len(req)
         /\ \A k \in 1..Len(returned) :
               /\ returned[k].validation_type = "Required Field"
               /\ returned[k].severity = "Critical"
               /\ returned[k].field_name = <<req[k].field_name>>
               /\ returned[k].form_name = req[k].form_name

\* a catalogue that mixes a field that is not required with a required one
C7_Witness ==
    /\ dvp_op = "generate_required_field_checks"
    /\ Len(crf_fields) = 2
    /\ ~crf_fields[1].required /\ crf_fields[2].required
    /\ Len(returned) = 1

\* C8: no two rule ids issued by one generator are equal, whatever the
\* interleaving of its methods, and each id starts with the prefix of the
\* rule's category followed by "-".
C8_RuleIdsUniqueAndPrefixed ==
    /\ \A i, j \in 1..Len(issued) : i # j => issued[i].rule_id # issued[j].rule_id
    /\ \A i \in 1..Len(issued) :
          /\ issued[i].rule_id.prefix = ExpectedPrefix(issued[i].validation_type)
          /\ issued[i].rule_id.sep = "-"
    /\ \A i \in 1..Len(validation_rules) :
          \E k \in 1..Len(issued) :
              /\ issued[k].rule_id = validation_rules[i].rule_id
              /\ issued[k].validation_type = validation_rules[i].validation_type
    /\ \A i \in 1..Len(returned) :
          \E k \in 1..Len(issued) :
              /\ issued[k].rule_id = returned[i].rule_id
              /\ issued[k].validation_type = returned[i].validation_type

\* ids issued by a direct generator call, generate_all_rules and add_custom_rule
C8_Witness ==
    /\ dvp_ops = 3
    /\ Len(validation_rules) >= 5
    /\ Len(issued) > Len(validation_rules)
    /\ \E i \in 1..Len(issued) : issued[i].validation_type = "Custom"
    /\ \E i, j \in 1..Len(issued) :
          i # j /\ issued[i].validation_type = "Protocol Deviation"
                /\ issued[j].validation_type = "Protocol Deviation"

\* C9 (as stated): with the single field age in the catalogue,
\* generate_all_rules yields exactly 2 rules: one Required Field rule of
\* severity Critical and one Range Check rule of severity Major whose
\* description carries 18 and 65.
C9_ExactlyTwoRules ==
    (dvp_op = "generate_all_rules" /\ crf_fields = <<AgeField>>)
      => /\ Len(returned) = 2
         /\ returned[1].validation_type = "Required Field"
         /\ returned[1].severity = "Critical"
         /\ returned[2].validation_type = "Range Check"
         /\ returned[2].severity = "Major"
         /\ TextCarries(returned[2].description, <<"1", "8">>)
         /\ TextCarries(returned[2].description, <<"6", "5">>)

\* C9 (amended): with the single field age in the catalogue,
\* generate_all_rules yields exactly 6 rules: one Required Field rule of
\* severity Critical, one Range Check rule of severity Major whose description
\* carries 18 and 65, and the four fixed Protocol Deviation rules.
C9_AgeScenario ==
    (dvp_op = "generate_all_rules" /\ crf_fields = <<AgeField>>)
      => /\ Len(returned) = 6
         /\ returned[1].validation_type = "Required Field"
         /\ returned[1].severity = "Critical"
         /\ returned[2].validation_type = "Range Check"
         /\ returned[2].severity = "Major"
         /\ TextCarries(returned[2].description, <<"1", "8">>)
         /\ TextCarries(returned[2].description, <<"6", "5">>)
         /\ \A k \in 3..6 : returned[k].validation_type = "Protocol Deviation"

\* generate_all_rules has run on the catalogue holding only the field age
C9_Witness ==
    /\ dvp_op = "generate_all_rules"
    /\ crf_fields = <<AgeField>>
    /\ Len(returned) = 6
    /\ validation_rules = returned

\* C10: two successive generate_all_rules calls on the same catalogue return
\* batches of equal size; the ids of the second batch are numbered from the
\* counter value reached before the call, which is past every number of the
\* first batch, so no id of the second batch equals an id of the first.
C10_SecondBatchContinues ==
    \A i \in 1..(Len(all_batches) - 1) :
        LET b1 == all_batches[i]
            b2 == all_batches[i + 1]
        IN  b1.fields = b2.fields
              => /\ Len(b1.rules) = Len(b2.rules)
                 /\ b2.counter_before >= b1.counter_before + Len(b1.rules)
                 /\ \A k \in 1..Len(b2.rules) :
                       DigitsValue(b2.rules[k].rule_id.number) = b2.counter_before + k
                 /\ \A k1 \in 1..Len(b1.rules), k2 \in 1..Len(b2.rules) :
                       b1.rules[k1].rule_id # b2.rules[k2].rule_id

\* generate_all_rules called twice on a non-empty catalogue, nothing added in between
C10_Witness ==
    /\ Len(all_batches) = 2
    /\ all_batches[1].fields = all_batches[2].fields
    /\ all_batches[1].fields # <<>>
    /\ Len(all_batches[2].rules) >= 5
    /\ Len(validation_rules) = 2 * Len(all_batches[2].rules)

\* the text holds the decimal number n as one interpolated value
CarriesNumber(text, n) ==
    \E i \in 1..Len(text) :
        /\ text[i].chars # <<>>
        /\ \A k \in 1..Len(text[i].chars) :
              \E d \in 1..10 : DigitChar[d] = text[i].chars[k]
        /\ DigitsValue(text[i].chars) = n

\* C18: generate_range_checks returns one rule of category Range Check and
\* severity Major for each numeric field with at least one of min/max set (a
\* bound of 0 is set), in catalogue order, and nothing for any other field;
\* with both bounds set the description carries both values.
C18_RangeChecks ==
    dvp_op = "generate_range_checks"
      => LET sel == SelectSeq(crf_fields,
                      LAMBDA f : f.data_type = "numeric"
                                 /\ (f.min_value # <<>> \/ f.max_value # <<>>))
         IN
         /\ Len(returned) = Len(sel)
         /\ \A k \in 1..Len(returned) :
               /\ returned[k].validation_type = "Range Check"
               /\ returned[k].severity = "Major"
               /\ returned[k].field_name = <<sel[k].field_name>>
               /\ returned[k].form_name = sel[k].form_name
               /\ (sel[k].min_value # <<>> /\ sel[k].max_value # <<>>)
                     => /\ CarriesNumber(returned[k].description, sel[k].min_value[1])
                        /\ CarriesNumber(returned[k].description, sel[k].max_value[1])
                        /\ returned[k].details.min_value = sel[k].min_value
                        /\ returned[k].details.max_value = sel[k].max_value

\* a catalogue with a field bounded below by 0 only and a field with both bounds
C18_Witness ==
    /\ dvp_op = "generate_range_checks"
    /\ Len(crf_fields) = 2
    /\ crf_fields[1].min_value = <<0>> /\ crf_fields[1].max_value = <<>>
    /\ crf_fields[2].min_value = <<40>> /\ crf_fields[2].max_value = <<200>>
    /\ Len(returned) = 2
    /\ CarriesNumber(returned[2].description, 200)

\* position of a category in the order generate_all_rules runs the generators
CategoryRank(validation_type) ==
    CASE validation_type = "Required Field"        -> 1
      [] validation_type = "Range Check"           -> 2
      [] validation_type = "Date Consistency"      -> 3
      [] validation_type = "Logical Check"         -> 4
      [] validation_type = "Cross-Form Validation" -> 5
      [] validation_type = "Protocol Deviation"    -> 6
      [] OTHER                                     -> 0

\* C19: a generate_all_rules call returns the newly generated batch only; the
\* batch is ordered Required Field, Range Check, Date Consistency, Logical
\* Check, Cross-Form Validation, Protocol Deviation, its sequence numbers
\* increase strictly, and validation_rules grows by exactly the batch,
\* appended at its end.
C19_ReturnsNewBatch ==
    [][ (dvp_ops' = dvp_ops + 1 /\ dvp_op' = "generate_all_rules")
          => /\ validation_rules' = validation_rules \o returned'
             /\ \A k \in 1..Len(returned') : CategoryRank(returned'[k].validation_type) >= 1
             /\ \A k \in 1..(Len(returned') - 1) :
                   /\ CategoryRank(returned'[k].validation_type)
                        <= CategoryRank(returned'[k + 1].validation_type)
                   /\ DigitsValue(returned'[k].rule_id.number)
                        < DigitsValue(returned'[k + 1].rule_id.number) ]_vars

\* generate_all_rules has returned a batch of three categories while
\* validation_rules already held a rule
C19_Witness ==
    /\ dvp_op = "generate_all_rules"
    /\ Len(returned) >= 6
    /\ Len(validation_rules) > Len(returned)
    /\ returned[1].validation_type = "Required Field"
    /\ returned[2].validation_type = "Range Check"
    /\ returned[Len(returned)].validation_type = "Protocol Deviation"

RECURSIVE SumCounts(_, _)
SumCounts(dict, keys) ==
    IF keys = {} THEN 0
    ELSE LET k == CHOOSE x \in keys : TRUE
         IN  dict[k] + SumCounts(dict, keys \ {k})

\* C20: the counts returned by get_rules_summary sum to the number of rules in
\* validation_rules, and the count of each category is the number of
\* accumulated rules of that category (a category without rules has no entry).
C20_SummaryCounts ==
    dvp_op = "get_rules_summary"
      => /\ SumCounts(summary, DOMAIN summary) = Len(validation_rules)
         /\ \A t \in {"Range Check", "Required Field", "Logical Check",
                      "Cross-Form Validation", "Date Consistency",
                      "Protocol Deviation", "Custom"} :
               LET n == Cardinality({i \in 1..Len(validation_rules) :
                                        validation_rules[i].validation_type = t})
               IN  IF n = 0 THEN t \notin DOMAIN summary
                   ELSE t \in DOMAIN summary /\ summary[t] = n

\* the summary of a collection built by generate_all_rules and add_custom_rule
C20_Witness ==
    /\ dvp_op = "get_rules_summary"
    /\ Len(validation_rules) = 5
    /\ DOMAIN summary = {"Protocol Deviation", "Custom"}
    /\ summary["Protocol Deviation"] = 4

----------------------------------------------------------------------------
(* Properties of rule construction and of the cross-form generator *)

\* a text with no character in it, written out on the segments
EmptyText(text) == \A i \in 1..Len(text) : text[i].lit = "" /\ text[i].chars = <<>>

EmptyId(rule_id) == rule_id.prefix = "" /\ rule_id.sep = "" /\ rule_id.number = <<>>

\* C21: every construction of a ValidationRule whose rule id, description or
\* query text is empty raises ValueError, and no other construction of the
\* model raises; an add_custom_rule call that raises leaves validation_rules
\* as it was, and one that does not raise appends exactly one rule.
C21_EmptyRuleRejected ==
    [][(dvp_ops' = dvp_ops + 1 /\ constructed'.made) =>
         LET empty == \/ EmptyId(constructed'.rule_id)
                      \/ EmptyText(constructed'.description)
                      \/ EmptyText(constructed'.query_text)
         IN  /\ dvp_op' \in {"add_custom_rule", "ValidationRule"}
             /\ (dvp_raised' = "ValueError") <=> empty
             /\ empty => validation_rules' = validation_rules
             /\ (dvp_op' = "add_custom_rule" /\ ~empty) =>
                   /\ Len(validation_rules') = Len(validation_rules) + 1
                   /\ SubSeq(validation_rules', 1, Len(validation_rules)) = validation_rules
                   /\ validation_rules'[Len(validation_rules')].description = constructed'.description
                   /\ validation_rules'[Len(validation_rules')].query_text = constructed'.query_text
             /\ dvp_op' = "ValidationRule" => validation_rules' = validation_rules]_vars

\* add_custom_rule was called with an empty query text on a generator that
\* already holds rules, and raised
C21_Witness ==
    /\ dvp_op = "add_custom_rule"
    /\ dvp_raised = "ValueError"
    /\ ~EmptyText(constructed.description)
    /\ EmptyText(constructed.query_text)
    /\ Len(validation_rules) > 0

\* positions in the catalogue of the fields carrying the subject-id concept
SubjectIdFields == {i \in 1..Len(crf_fields) : IsSubjectIdField(crf_fields[i])}

SubjectIdForms == {crf_fields[i].form_name : i \in SubjectIdFields}

\* C22: generate_cross_form_validations returns exactly one rule (category
\* CrossForm, severity Critical) when the subject-id concept appears on more
\* than one form, and returns no rule otherwise, including when all matching
\* fields belong to one form.
C22_CrossFormRule ==
    [][(dvp_ops' = dvp_ops + 1 /\ dvp_op' = "generate_cross_form_validations") =>
         IF Cardinality(SubjectIdForms) > 1
         THEN /\ Len(returned') = 1
              /\ returned'[1].validation_type = "Cross-Form Validation"
              /\ returned'[1].severity = "Critical"
         ELSE returned' = <<>>]_vars

\* ids of the rules constructed by direct calls of the six generator methods
DirectIds == {issued[k].rule_id : k \in {n \in 1..Len(issued) : issued[n].by \in GeneratorNames}}

\* number of rules constructed by generate_all_rules and add_custom_rule
CollectedCount ==
    Cardinality({n \in 1..Len(issued) :
                    issued[n].by \in {"generate_all_rules", "add_custom_rule"}})

\* C29: a direct call of one of the six generator methods advances the id
\* counter by the number of rules it returns and leaves validation_rules and
\* crf_fields unchanged; validation_rules changes only in generate_all_rules
\* and add_custom_rule; the dict of get_rules_summary counts, and the list of
\* export_rules_to_dict holds, only the rules those two methods constructed,
\* never a rule returned by a direct generator call.
C29_DirectCallsNotCollected ==
    /\ [][(dvp_ops' = dvp_ops + 1 /\ dvp_op' \in GeneratorNames) =>
            /\ rule_counter' = rule_counter + Len(returned')
            /\ validation_rules' = validation_rules
            /\ crf_fields' = crf_fields]_vars
    /\ [][validation_rules' # validation_rules =>
            dvp_op' \in {"generate_all_rules", "add_custom_rule"}]_vars
    /\ [](dvp_op = "get_rules_summary" =>
            SumCounts(summary, DOMAIN summary) = CollectedCount)
    /\ [](dvp_op = "export_rules_to_dict" =>
            /\ Len(exported) = CollectedCount
            /\ \A i \in 1..Len(exported) : exported[i].rule_id \notin DirectIds)

\* an export made after add_custom_rule and a direct generator call that
\* returned rules and advanced the counter
C29_Witness ==
    /\ dvp_op = "export_rules_to_dict"
    /\ Len(exported) = 1
    /\ Cardinality(DirectIds) = 4
    /\ rule_counter = 5

----------------------------------------------------------------------------
(* Properties of the report's bookkeeping *)

\* C23: in every reachable state generated_files is the list of the output
\* paths of the completed tasks, one entry per completed task, in the order
\* in which the tasks completed (tasks complete in the order of the task
\* list); failed, skipped, running and pending tasks contribute no entry.
C23_GeneratedFiles ==
    LET done == SelectSeq(report.tasks, LAMBDA t : t.status = "completed")
    IN  /\ Len(report.generated_files) = Len(done)
        /\ \A k \in 1..Len(done) :
              /\ done[k].output_path # "None"
              /\ report.generated_files[k] = done[k].output_path

\* two documents were generated, a third step failed and one was skipped
C23_Witness ==
    /\ Len(report.generated_files) = 3
    /\ \E i, j \in 1..Len(report.tasks) :
          report.tasks[i].status = "failed" /\ report.tasks[j].status = "skipped"

\* C27: in every reachable state total_tasks is the number of task records,
\* and completed_tasks + failed_tasks + skipped_tasks is the number of task
\* records with a terminal status, so the sum never exceeds total_tasks.
C27_Counters ==
    LET terminal == {i \in 1..Len(report.tasks) :
                        report.tasks[i].status \in {"completed", "failed", "skipped"}}
        sum == report.completed_tasks + report.failed_tasks + report.skipped_tasks
    IN  /\ report.total_tasks = Len(report.tasks)
        /\ sum = Cardinality(terminal)
        /\ sum <= report.total_tasks

\* a step is in progress after tasks of all three terminal kinds were counted
C27_Witness ==
    /\ pc = "running"
    /\ report.completed_tasks > 0 /\ report.failed_tasks > 0 /\ report.skipped_tasks > 0
    /\ report.completed_tasks + report.failed_tasks + report.skipped_tasks
          = report.total_tasks - 1

\* the task records a step has just put into status st
Newly(st) ==
    {i \in 1..Len(report'.tasks) :
        /\ report'.tasks[i].status = st
        /\ (i > Len(report.tasks) \/ report.tasks[i].status # st)}

\* C28: no step taken inside run_all puts a crf, dvp or user_guide task into
\* skipped; such a task becomes skipped only in a step method called directly
\* on an orchestrator whose protocol_info is not set.
C28_NoSkipInsideRunAll ==
    [][\A i \in Newly("skipped") :
          report'.tasks[i].task_type \in {"crf", "dvp", "user_guide"}
            => /\ op # "run_all"
               /\ op = TaskId(report'.tasks[i].task_type)
               /\ ~protocol_info.set]_vars

\* a direct generate_crf was skipped on the unparsed orchestrator, and the
\* run_all that followed parsed the protocol and generated crf and dvp
C28_Witness ==
    /\ RunAllEnded /\ RunParse("completed")
    /\ run_base = 1
    /\ report.tasks[1].task_type = "crf" /\ report.tasks[1].status = "skipped"
    /\ \E i, j \in 2..Len(RunTasks) :
          /\ RunTasks[i].task_type = "crf" /\ RunTasks[i].status = "completed"
          /\ RunTasks[j].task_type = "dvp" /\ RunTasks[j].status = "failed"

\* C30: every status update that carries a message (failed or skipped)
\* appends exactly one entry, the task type with the message, to the report's
\* error list, and an update without message appends none; so a run_all that
\* requested dmp and whose parse succeeded ends with a non-empty error list,
\* also when failed_tasks is 0.
C30_MessageAppendsError ==
    /\ [][\A i \in 1..Len(report'.tasks) :
             /\ i \in Newly("failed") \cup Newly("skipped")
                  => /\ report'.tasks[i].error_message \notin {"None", ""}
                     /\ report'.errors = Append(report.errors,
                           <<report'.tasks[i].task_type, report'.tasks[i].error_message>>)
             /\ i \in Newly("running") \cup Newly("completed")
                  => report'.errors = report.errors]_vars
    /\ []((/\ RunAllEnded /\ RunParse("completed")
           /\ generate_types.kind # "not_iterable"
           /\ "dmp" \in (IF generate_types.kind = "none"
                          THEN {"crf", "dvp", "user_guide", "dmp"}
                          ELSE generate_types.types))
            => report.errors # <<>>)

\* a run_all of dmp alone: nothing failed, yet the error list has one entry
C30_Witness ==
    /\ RunAllEnded /\ RunParse("completed")
    /\ generate_types = [kind |-> "list", types |-> {"dmp"}]
    /\ report.failed_tasks = 0
    /\ report.errors = <<<<"dmp", "DMP generator not implemented">>>>

----------------------------------------------------------------------------
(* Properties of the final report, the batch summary and the backups *)

\* C24: whenever the final report is on disk, every task record it lists is
\* completed, failed or skipped, none is pending or running, and every
\* failed or skipped record carries an error message.
C24_FinalReportTerminal ==
    \A f \in {"json", "text"} :
        report_files[f].written =>
            \A i \in 1..Len(report_files[f].content.tasks) :
                LET task == report_files[f].content.tasks[i]
                IN  /\ task.status \in {"completed", "failed", "skipped"}
                    /\ task.status \in {"failed", "skipped"}
                          => task.error_message \notin {"None", ""}

\* C25: once the loop of process_protocols has handled its last input, the
\* call writes the batch summary over the collected results and returns,
\* whatever the number of inputs that failed (the user's interrupt apart).
C25_BatchAlwaysReturns ==
    [][(/\ main_pc = "batch" /\ batch_i > Len(argv.batch)
        /\ main_pc' # main_pc
        /\ exit_via' # "keyboard_interrupt")
          => /\ main_pc' = "batch_returned"
             /\ batch_summary'.written
             /\ batch_summary'.count = Len(results)]_vars

\* C26: with backups enabled, a copy into the backup directory has been
\* attempted by the time a generation step of a run_all has started; with
\* backups disabled no copy is ever attempted.
C26_BackupBeforeGeneration ==
    /\ (/\ backup_enabled
        /\ op = "run_all"
        /\ \E i \in run_base + 1..Len(report.tasks) :
              /\ report.tasks[i].task_type \in {"crf", "dvp", "user_guide", "dmp"}
              /\ report.tasks[i].status # "pending")
          => Len(backups) > 0
    /\ ~backup_enabled => backups = <<>>

====
